---- MODULE Spec2Model ----
(***************************************************************************)
(* Model of the in-memory file system (src/src/filesystem.rs), of the host *)
(* imports of the TeX guest (src/src/texjax_imports.rs), of the runner     *)
(* (src/rust_tikz/src/wasm_runner.rs) and of the DVI to SVG machine        *)
(* (src/rust-tikz/src/dvi2svg/svgmachine.rs).                              *)
(*                                                                         *)
(* Bytes are naturals 0..255, byte vectors and strings are sequences of    *)
(* bytes.  A descriptor fd (0-based, as in the code) is held at index      *)
(* fd + 1 of fd_to_file_pointer.                                           *)
(***************************************************************************)
EXTENDS Integers, Sequences, FiniteSets, TLC

VARIABLES
    data,                \* VirtualFileSystem.data : name -> bytes
    stdin,               \* VirtualFileSystem.stdin
    stdout,              \* VirtualFileSystem.stdout
    fd_to_file_pointer,  \* VirtualFileSystem.fd_to_file_pointer
    mem,                 \* the guest's linear memory (export "0")
    has_run,             \* WasmRunner.has_run
    main_calls,          \* calls of the guest's main since construction or set_input
    machine,             \* the SVGMachine of a dvi2svg call
    ret                  \* the last call: its name, arguments and outcome

vars == <<data, stdin, stdout, fd_to_file_pointer, mem, has_run, main_calls, machine, ret>>

\* what the file system and the host imports leave alone
runner_and_machine == <<has_run, main_calls, machine>>

\* no dvi2svg call is under way
NoMachine == [kind |-> "None"]

----------------------------------------------------------------------------
(* Bounds of the model *)

MaxFds == 2      \* descriptors created in one run
MaxPos == 2      \* largest cursor value explored
MaxData == 1     \* longest byte vector handed to one write
MaxRead == 2     \* largest length handed to one read
MaxAdvance == 1  \* largest offset handed to advance_file_pointer
MaxWritePos == 2 \* largest cursor value a guest write may reach
HostMaxPos == 4  \* largest cursor value explored under the host imports
HostMaxFds == 1  \* descriptors the guest opens in one run
MaxNameLen == 4  \* longest file name drawn from NameChars

----------------------------------------------------------------------------
(* Characters and names *)

LF == 10
SP == 32

\* "input.tex"
NameInputTex == <<105, 110, 112, 117, 116, 46, 116, 101, 120>>
\* "t"
NameT == <<116>>

\* The content VirtualFileSystem::new gives to input.tex:
\* "\n\\begin{document}\n\\begin{tikzpicture}\n\\draw (0,0) circle (1in);\n\\end{tikzpicture}\n\\end{document}"
DefaultInputTex ==
    <<10, 92, 98, 101, 103, 105, 110, 123, 100, 111, 99, 117, 109, 101, 110, 116, 125,
      10, 92, 98, 101, 103, 105, 110, 123, 116, 105, 107, 122, 112, 105, 99, 116, 117, 114, 101, 125,
      10, 92, 100, 114, 97, 119, 32, 40, 48, 44, 48, 41, 32, 99, 105, 114, 99, 108, 101, 32, 40, 49, 105, 110, 41, 59,
      10, 92, 101, 110, 100, 123, 116, 105, 107, 122, 112, 105, 99, 116, 117, 114, 101, 125,
      10, 92, 101, 110, 100, 123, 100, 111, 99, 117, 109, 101, 110, 116, 125>>

Min(a, b) == IF a <= b THEN a ELSE b
Max(a, b) == IF a >= b THEN a ELSE b

\* All sequences over S of length 0..n
SeqUpTo(S, n) == UNION {[1..k -> S] : k \in 0..n}

\* n copies of byte b
Repeat(b, n) == [i \in 1..n |-> b]

\* the decimal digits of a natural number, in ASCII
\* body applied to the value of e, which is worked out once
Bind(e, body(_)) == CHOOSE r \in {body(x) : x \in {e}} : TRUE

RECURSIVE Digits(_)
Digits(n) == IF n < 10 THEN <<48 + n>> ELSE Digits(n \div 10) \o <<48 + (n % 10)>>

\* the decimal representation of an integer, with a minus sign when negative
Decimal(n) == IF n < 0 THEN <<45>> \o Digits(0 - n) ELSE Digits(n)

----------------------------------------------------------------------------
(* FileType and FilePointer *)

Stdin == [kind |-> "Stdin", name |-> <<>>]
Stdout == [kind |-> "Stdout", name |-> <<>>]
Named(name) == [kind |-> "Named", name |-> name]

new_stdin == [file |-> Stdin, position |-> 0, erstat |-> 0]
new_stdout == [file |-> Stdout, position |-> 0, erstat |-> 0]
new_named(name) == [file |-> Named(name), position |-> 0, erstat |-> 0]
new_named_with_erstat(name) == [file |-> Named(name), position |-> 0, erstat |-> 1]

----------------------------------------------------------------------------
(* The VirtualFileSystem as a value, and its methods as operators.  Each   *)
(* method returns the file system after the call together with its result. *)

VFS(d, i, o, f) == [data |-> d, stdin |-> i, stdout |-> o, fd_to_file_pointer |-> f]

Self == VFS(data, stdin, stdout, fd_to_file_pointer)

\* VirtualFileSystem::new(files): files plus input.tex, empty stdin/stdout, no descriptors
new(files) ==
    VFS([n \in DOMAIN files \cup {NameInputTex} |->
            IF n = NameInputTex THEN DefaultInputTex ELSE files[n]],
        <<>>, <<>>, <<>>)

\* the `match fp.file { Stdin => stdin, Stdout => stdout, Named(name) => data[name] }`
Buffer(v, file) ==
    CASE file.kind = "Stdin" -> v.stdin
      [] file.kind = "Stdout" -> v.stdout
      [] OTHER -> v.data[file.name]

\* assignment through that `&mut` buffer
WithBuffer(v, file, b) ==
    CASE file.kind = "Stdin" -> [v EXCEPT !.stdin = b]
      [] file.kind = "Stdout" -> [v EXCEPT !.stdout = b]
      [] OTHER -> [v EXCEPT !.data[file.name] = b]

\* fd_to_file_pointer.get(fd as usize).is_some(), for fd >= 0
HasFd(v, fd) == fd >= 0 /\ fd + 1 <= Len(v.fd_to_file_pointer)

get_file_descriptor_always_erstat(v, file, erstat_if_new) ==
    LET is_new_file == file.kind = "Named" /\ file.name \notin DOMAIN v.data
        d == IF is_new_file
               THEN [n \in DOMAIN v.data \cup {file.name} |->
                        IF n = file.name THEN <<>> ELSE v.data[n]]
               ELSE v.data
        file_pointer ==
            CASE file.kind = "Stdin" -> new_stdin
              [] file.kind = "Stdout" -> new_stdout
              [] OTHER -> IF is_new_file
                            THEN new_named_with_erstat(file.name)
                            ELSE new_named(file.name)
        f == Append(v.fd_to_file_pointer, file_pointer)
    IN [vfs |-> [v EXCEPT !.data = d, !.fd_to_file_pointer = f], fd |-> Len(f) - 1]

\* get_file_descriptor emptying an existing file that is opened for writing
get_file_descriptor_truncating(v, file, erstat_if_new) ==
    LET is_new_file == file.kind = "Named" /\ file.name \notin DOMAIN v.data
        d == IF file.kind = "Named" /\ (is_new_file \/ ~erstat_if_new)
               THEN [n \in DOMAIN v.data \cup {file.name} |->
                        IF n = file.name THEN <<>> ELSE v.data[n]]
               ELSE v.data
        file_pointer ==
            CASE file.kind = "Stdin" -> new_stdin
              [] file.kind = "Stdout" -> new_stdout
              [] OTHER -> IF is_new_file /\ erstat_if_new
                            THEN new_named_with_erstat(file.name)
                            ELSE new_named(file.name)
        f == Append(v.fd_to_file_pointer, file_pointer)
    IN [vfs |-> [v EXCEPT !.data = d, !.fd_to_file_pointer = f], fd |-> Len(f) - 1]

\* get_file_descriptor setting erstat for a file that is empty, new or not
get_file_descriptor_erstat_if_empty(v, file, erstat_if_new) ==
    LET is_new_file == file.kind = "Named" /\ file.name \notin DOMAIN v.data
        d == IF is_new_file
               THEN [n \in DOMAIN v.data \cup {file.name} |->
                        IF n = file.name THEN <<>> ELSE v.data[n]]
               ELSE v.data
        file_pointer ==
            CASE file.kind = "Stdin" -> new_stdin
              [] file.kind = "Stdout" -> new_stdout
              [] OTHER -> IF d[file.name] = <<>> /\ erstat_if_new
                            THEN new_named_with_erstat(file.name)
                            ELSE new_named(file.name)
        f == Append(v.fd_to_file_pointer, file_pointer)
    IN [vfs |-> [v EXCEPT !.data = d, !.fd_to_file_pointer = f], fd |-> Len(f) - 1]

get_file_descriptor_reuse(v, file, erstat_if_new) ==
    LET is_new_file == file.kind = "Named" /\ file.name \notin DOMAIN v.data
        d == IF is_new_file
               THEN [n \in DOMAIN v.data \cup {file.name} |->
                        IF n = file.name THEN <<>> ELSE v.data[n]]
               ELSE v.data
        file_pointer ==
            CASE file.kind = "Stdin" -> new_stdin
              [] file.kind = "Stdout" -> new_stdout
              [] OTHER -> IF is_new_file /\ erstat_if_new
                            THEN new_named_with_erstat(file.name)
                            ELSE new_named(file.name)
        same == {i \in 1..Len(v.fd_to_file_pointer) : v.fd_to_file_pointer[i].file = file}
    IN IF same # {}
         THEN LET i == CHOOSE j \in same : TRUE
              IN [vfs |-> [v EXCEPT !.data = d, !.fd_to_file_pointer[i] = file_pointer],
                  fd |-> i - 1]
         ELSE LET f == Append(v.fd_to_file_pointer, file_pointer)
              IN [vfs |-> [v EXCEPT !.data = d, !.fd_to_file_pointer = f], fd |-> Len(f) - 1]

get_file_descriptor(v, file, erstat_if_new) ==
    LET is_new_file == file.kind = "Named" /\ file.name \notin DOMAIN v.data
        \* self.data.entry(name).or_insert_with(Vec::new)
        d == IF is_new_file
               THEN [n \in DOMAIN v.data \cup {file.name} |->
                        IF n = file.name THEN <<>> ELSE v.data[n]]
               ELSE v.data
        file_pointer ==
            CASE file.kind = "Stdin" -> new_stdin
              [] file.kind = "Stdout" -> new_stdout
              [] OTHER -> IF is_new_file /\ erstat_if_new
                            THEN new_named_with_erstat(file.name)
                            ELSE new_named(file.name)
        f == Append(v.fd_to_file_pointer, file_pointer)
    IN [vfs |-> [v EXCEPT !.data = d, !.fd_to_file_pointer = f], fd |-> Len(f) - 1]

\* Option<&FilePointer>: some = FALSE is None
get_file_pointer_by_index(v, fd) ==
    IF fd < 0 THEN [some |-> FALSE, fp |-> new_stdin]
    ELSE IF HasFd(v, fd) THEN [some |-> TRUE, fp |-> v.fd_to_file_pointer[fd + 1]]
    ELSE [some |-> FALSE, fp |-> new_stdin]

\* buffer.resize(..., 0) when needed, then buffer.splice(position..position+len, bytes)
WriteAt(buffer, position, bytes) ==
    LET n == Len(bytes)
        resized == IF position + n > Len(buffer)
                     THEN buffer \o Repeat(0, position + n - Len(buffer))
                     ELSE buffer
    IN SubSeq(resized, 1, position) \o bytes \o SubSeq(resized, position + n + 1, Len(resized))

\* write_to_file_by_index moving the cursor of every descriptor of the file written
write_to_file_by_index_shared_cursor(v, fd, bytes) ==
    IF fd < 0 THEN v
    ELSE IF HasFd(v, fd) THEN
        LET fp == v.fd_to_file_pointer[fd + 1]
            buffer == WriteAt(Buffer(v, fp.file), fp.position, bytes)
            w == WithBuffer(v, fp.file, buffer)
        IN [w EXCEPT !.fd_to_file_pointer =
                [i \in 1..Len(@) |->
                    IF @[i].file = fp.file
                      THEN [@[i] EXCEPT !.position = fp.position + Len(bytes)]
                      ELSE @[i]]]
    ELSE v

write_to_file_by_index_wrap_fd(v, fd, bytes) ==
    LET k == IF fd < 0 THEN 0 - fd - 1 ELSE fd
    IN IF HasFd(v, k) THEN
        LET fp == v.fd_to_file_pointer[k + 1]
            buffer == WriteAt(Buffer(v, fp.file), fp.position, bytes)
        IN [WithBuffer(v, fp.file, buffer) EXCEPT
                !.fd_to_file_pointer[k + 1].position = fp.position + Len(bytes)]
       ELSE v

write_to_file_by_index_reopen(v, fd, bytes) ==
    IF fd < 0 THEN v
    ELSE IF HasFd(v, fd) THEN
        LET fp == v.fd_to_file_pointer[fd + 1]
            buffer == WriteAt(Buffer(v, fp.file), fp.position, bytes)
        IN [WithBuffer(v, fp.file, buffer) EXCEPT
                !.fd_to_file_pointer[fd + 1] =
                    [file |-> fp.file, position |-> fp.position + Len(bytes), erstat |-> 0]]
    ELSE v

write_to_file_by_index(v, fd, bytes) ==
    IF fd < 0 THEN v
    ELSE IF HasFd(v, fd) THEN
        LET fp == v.fd_to_file_pointer[fd + 1]
            buffer == WriteAt(Buffer(v, fp.file), fp.position, bytes)
        IN [WithBuffer(v, fp.file, buffer) EXCEPT
                !.fd_to_file_pointer[fd + 1].position = fp.position + Len(bytes)]
    ELSE v

\* let start = if buffer.len() == 0 { 0 } else { min(fp.position, buffer.len() - 1) };
ReadStart(buffer, position) ==
    IF Len(buffer) = 0 THEN 0 ELSE Min(position, Len(buffer) - 1)

\* let end = min(fp.position + length, buffer.len());
ReadEnd(buffer, position, length) == Min(position + length, Len(buffer))

\* buffer[start..end].to_vec()  (start <= end in every case, so the slice never panics)
ReadSlice(buffer, position, length) ==
    SubSeq(buffer, ReadStart(buffer, position) + 1, ReadEnd(buffer, position, length))

read_from_file_by_index(v, fd, length) ==
    IF fd < 0 THEN [vfs |-> v, out |-> <<>>]
    ELSE IF HasFd(v, fd) THEN
        LET fp == v.fd_to_file_pointer[fd + 1]
            bytes == ReadSlice(Buffer(v, fp.file), fp.position, length)
        IN [vfs |-> [v EXCEPT !.fd_to_file_pointer[fd + 1].position = fp.position + Len(bytes)],
            out |-> bytes]
    ELSE [vfs |-> v, out |-> <<>>]

\* panics for fd < 0 and for an offset outside the buffer
get_file_byte(v, fd, offset) ==
    IF fd < 0 THEN [panic |-> TRUE, val |-> 0]
    ELSE IF HasFd(v, fd) THEN
        LET buffer == Buffer(v, v.fd_to_file_pointer[fd + 1].file)
        IN IF offset < Len(buffer)
             THEN [panic |-> FALSE, val |-> buffer[offset + 1]]
             ELSE [panic |-> TRUE, val |-> 0]
    ELSE [panic |-> FALSE, val |-> 0]

get_length(v, fd) ==
    IF fd < 0 THEN 0
    ELSE IF HasFd(v, fd) THEN Len(Buffer(v, v.fd_to_file_pointer[fd + 1].file))
    ELSE 0

\* a stream counts as ended only once the cursor is past its length
file_pointer_at_eof_strict(v, fp) ==
    CASE fp.file.kind = "Stdin" -> Len(v.stdin) = 0 \/ fp.position > Len(v.stdin)
      [] fp.file.kind = "Stdout" -> FALSE
      [] OTHER -> fp.position > Len(v.data[fp.file.name])

file_pointer_at_eof(v, fp) ==
    CASE fp.file.kind = "Stdin" -> Len(v.stdin) = 0 \/ fp.position >= Len(v.stdin)
      [] fp.file.kind = "Stdout" -> FALSE
      [] OTHER -> fp.position >= Len(v.data[fp.file.name])

\* an open descriptor is never reported at end of file
at_eof_by_index_open_never(v, fd) ==
    IF fd < 0 THEN TRUE
    ELSE IF HasFd(v, fd) THEN FALSE
    ELSE TRUE

at_eof_by_index(v, fd) ==
    IF fd < 0 THEN TRUE
    ELSE IF HasFd(v, fd) THEN file_pointer_at_eof(v, v.fd_to_file_pointer[fd + 1])
    ELSE TRUE

\* buffer.get(position) == Some(&b'\n')
ByteIsLF(buffer, position) == position < Len(buffer) /\ buffer[position + 1] = LF

file_pointer_at_eoln(v, fp) ==
    \/ file_pointer_at_eof(v, fp)
    \/ CASE fp.file.kind = "Stdin" -> ByteIsLF(v.stdin, fp.position)
         [] fp.file.kind = "Stdout" -> FALSE
         [] OTHER -> ByteIsLF(v.data[fp.file.name], fp.position)

\* Option<usize>
next_newline_offset_by_index(v, fd) ==
    IF fd < 0 THEN [some |-> FALSE, val |-> 0]
    ELSE IF HasFd(v, fd) THEN
        LET fp == v.fd_to_file_pointer[fd + 1]
            buffer == Buffer(v, fp.file)
            lfs == {i \in fp.position..(Len(buffer) - 1) : buffer[i + 1] = LF}
        IN IF fp.position >= Len(buffer)
             THEN [some |-> TRUE, val |-> Max(Len(buffer), 1) - 1]
             ELSE IF lfs # {}
                    THEN [some |-> TRUE, val |-> CHOOSE i \in lfs : \A j \in lfs : i <= j]
                    ELSE [some |-> TRUE, val |-> Len(buffer)]
    ELSE [some |-> FALSE, val |-> 0]

advance_file_pointer(v, fd, offset) ==
    IF fd < 0 THEN v
    ELSE IF HasFd(v, fd)
        THEN [v EXCEPT !.fd_to_file_pointer[fd + 1].position = @ + offset]
    ELSE v

set_stdin(v, bytes) == [v EXCEPT !.stdin = bytes]

----------------------------------------------------------------------------
(* The record of the last call *)

NoFile == [kind |-> "None", name |-> <<>>]

NoRet ==
    [op |-> "none", fd |-> 0 - 2, file |-> NoFile, flag |-> FALSE, n |-> 0, ptr |-> 0,
     arg |-> <<>>, out |-> <<>>, val |-> 0, some |-> FALSE, panic |-> FALSE]

\* the process is gone after a panic
Alive == ~ret.panic

Install(v) ==
    /\ data' = v.data
    /\ stdin' = v.stdin
    /\ stdout' = v.stdout
    /\ fd_to_file_pointer' = v.fd_to_file_pointer

----------------------------------------------------------------------------
(* Inputs of the calls made directly on the VirtualFileSystem *)

\* files handed to VirtualFileSystem::new
SeedFiles == {<<>>, [n \in {NameT} |-> <<72>>]}

OpenFiles == {Stdin, Stdout, Named(NameT)}

FdArgs == (0 - 1)..MaxFds

WriteBytes == {LF}

StdinInputs == {<<>>, <<SP, LF>>}

PositionOf(v, fd) == v.fd_to_file_pointer[fd + 1].position

\* every cursor stays within the explored range
Bounded(v) ==
    \A i \in 1..Len(v.fd_to_file_pointer) : v.fd_to_file_pointer[i].position <= MaxPos

\* the cursor of fd stays within the range in which the guest writes
WriteBounded(v, fd) == HasFd(v, fd) => PositionOf(v, fd) <= MaxWritePos

\* every cursor stays within the range explored under the host imports
HostBounded(v) ==
    \A i \in 1..Len(v.fd_to_file_pointer) : v.fd_to_file_pointer[i].position <= HostMaxPos

----------------------------------------------------------------------------
(* Calls made directly on the VirtualFileSystem *)

CallGetFileDescriptor ==
    /\ UNCHANGED runner_and_machine
    /\ Alive
    /\ Len(fd_to_file_pointer) < MaxFds
    /\ \E file \in OpenFiles, erstat_if_new \in BOOLEAN :
        LET r == get_file_descriptor(Self, file, erstat_if_new)
        IN /\ Install(r.vfs)
           /\ ret' = [NoRet EXCEPT !.op = "get_file_descriptor", !.file = file,
                                   !.flag = erstat_if_new, !.val = r.fd]
    /\ UNCHANGED mem

CallGetFilePointerByIndex ==
    /\ UNCHANGED runner_and_machine
    /\ Alive
    /\ \E fd \in FdArgs :
        LET r == get_file_pointer_by_index(Self, fd)
        IN ret' = [NoRet EXCEPT !.op = "get_file_pointer_by_index", !.fd = fd,
                                !.some = r.some,
                                !.file = IF r.some THEN r.fp.file ELSE NoFile,
                                !.n = IF r.some THEN r.fp.position ELSE 0,
                                !.val = IF r.some THEN r.fp.erstat ELSE 0]
    /\ UNCHANGED <<data, stdin, stdout, fd_to_file_pointer, mem>>

CallWriteToFileByIndex ==
    /\ UNCHANGED runner_and_machine
    /\ Alive
    /\ \E fd \in FdArgs, bytes \in SeqUpTo(WriteBytes, MaxData) :
        LET v == write_to_file_by_index(Self, fd, bytes)
        IN /\ Bounded(v)
           /\ Install(v)
           /\ ret' = [NoRet EXCEPT !.op = "write_to_file_by_index", !.fd = fd, !.arg = bytes]
    /\ UNCHANGED mem

CallReadFromFileByIndex ==
    /\ UNCHANGED runner_and_machine
    /\ Alive
    /\ \E fd \in FdArgs, length \in 0..MaxRead :
        LET r == read_from_file_by_index(Self, fd, length)
        IN /\ Bounded(r.vfs)
           /\ Install(r.vfs)
           /\ ret' = [NoRet EXCEPT !.op = "read_from_file_by_index", !.fd = fd,
                                   !.n = length, !.out = r.out]
    /\ UNCHANGED mem

CallGetLength ==
    /\ UNCHANGED runner_and_machine
    /\ Alive
    /\ \E fd \in FdArgs :
        ret' = [NoRet EXCEPT !.op = "get_length", !.fd = fd, !.val = get_length(Self, fd)]
    /\ UNCHANGED <<data, stdin, stdout, fd_to_file_pointer, mem>>

CallAtEofByIndex ==
    /\ UNCHANGED runner_and_machine
    /\ Alive
    /\ \E fd \in FdArgs :
        ret' = [NoRet EXCEPT !.op = "at_eof_by_index", !.fd = fd,
                             !.flag = at_eof_by_index(Self, fd)]
    /\ UNCHANGED <<data, stdin, stdout, fd_to_file_pointer, mem>>

\* file_pointer_at_eoln on the file pointer of an open descriptor
CallFilePointerAtEoln ==
    /\ UNCHANGED runner_and_machine
    /\ Alive
    /\ \E fd \in FdArgs :
        LET r == get_file_pointer_by_index(Self, fd)
        IN /\ r.some
           /\ ret' = [NoRet EXCEPT !.op = "file_pointer_at_eoln", !.fd = fd,
                                   !.flag = file_pointer_at_eoln(Self, r.fp)]
    /\ UNCHANGED <<data, stdin, stdout, fd_to_file_pointer, mem>>

CallAdvanceFilePointer ==
    /\ UNCHANGED runner_and_machine
    /\ Alive
    /\ \E fd \in FdArgs, offset \in 0..MaxAdvance :
        LET v == advance_file_pointer(Self, fd, offset)
        IN /\ Bounded(v)
           /\ Install(v)
           /\ ret' = [NoRet EXCEPT !.op = "advance_file_pointer", !.fd = fd, !.n = offset]
    /\ UNCHANGED mem

CallSetStdin ==
    /\ UNCHANGED runner_and_machine
    /\ Alive
    /\ \E bytes \in StdinInputs :
        /\ Install(set_stdin(Self, bytes))
        /\ ret' = [NoRet EXCEPT !.op = "set_stdin", !.arg = bytes]
    /\ UNCHANGED mem

Init ==
    /\ \E files \in SeedFiles :
        /\ data = new(files).data
        /\ stdin = new(files).stdin
        /\ stdout = new(files).stdout
        /\ fd_to_file_pointer = new(files).fd_to_file_pointer
    /\ mem = <<>>
    /\ ret = NoRet
    /\ has_run = FALSE
    /\ main_calls = 0
    /\ machine = NoMachine

Next ==
    \/ CallGetFileDescriptor
    \/ CallGetFilePointerByIndex
    \/ CallWriteToFileByIndex
    \/ CallReadFromFileByIndex
    \/ CallGetLength
    \/ CallAtEofByIndex
    \/ CallFilePointerAtEoln
    \/ CallAdvanceFilePointer
    \/ CallSetStdin

Spec == Init /\ [][Next]_vars

----------------------------------------------------------------------------
(* Guest memory.  Address a is held at index a + 1 of mem.                 *)

MemSize == 24     \* bytes of guest memory in the model
MaxContent == 1         \* elements in the content of the SVG machine
MaxBuffer == 8          \* bytes in svg_buffer below which another raw special is taken
MaxColorStack == 2      \* depth of color_stack
MaxPositionStack == 1   \* depth of position_stack
MaxH == 1               \* largest horizontal position
GuestRead == 2          \* bytes of input.tex the guest reads
MaxRunnerFds == 8       \* descriptors in the table up to which set_input is called

\* read_memory: memory.read(..).unwrap() on each byte
read_memory(m, pointer, length) ==
    IF pointer + length > Len(m) /\ length > 0
      THEN [panic |-> TRUE, bytes |-> <<>>]
      ELSE [panic |-> FALSE, bytes |-> SubSeq(m, pointer + 1, pointer + length)]

\* mem.write(..).expect(..)
MemWrite(m, pointer, bytes) ==
    IF pointer + Len(bytes) > Len(m)
      THEN [panic |-> TRUE, mem |-> m]
      ELSE [panic |-> FALSE,
            mem |-> [i \in 1..Len(m) |->
                        IF i > pointer /\ i <= pointer + Len(bytes)
                          THEN bytes[i - pointer] ELSE m[i]]]

\* u32::from_ne_bytes on a little-endian host
u8_to_u32(bytes) ==
    bytes[1] + 256 * bytes[2] + 65536 * bytes[3] + 16777216 * bytes[4]

\* u32::to_ne_bytes on a little-endian host
to_ne_bytes(n) ==
    <<n % 256, (n \div 256) % 256, (n \div 65536) % 256, (n \div 16777216) % 256>>

\* `c as u8` for an i32 c
AsU8(c) == c % 256

----------------------------------------------------------------------------
(* clean_filename *)

QUOTE == 34
LBRACE == 123
RBRACE == 125

\* "TTY:"
NameTTY == <<84, 84, 89, 58>>
\* "TeXformats:TEX.POOL"
NameTexPoolLong ==
    <<84, 101, 88, 102, 111, 114, 109, 97, 116, 115, 58, 84, 69, 88, 46, 80, 79, 79, 76>>
\* "tex.pool"
NameTexPool == <<116, 101, 120, 46, 112, 111, 111, 108>>

\* char::is_whitespace on the ASCII range
IsWhitespace(c) == c \in {9, 10, 11, 12, 13, 32}

\* str::trim
Trim(str) ==
    LET keep == {i \in 1..Len(str) : ~IsWhitespace(str[i])}
    IN IF keep = {} THEN <<>>
       ELSE SubSeq(str, CHOOSE i \in keep : \A j \in keep : i <= j,
                        CHOOSE i \in keep : \A j \in keep : i >= j)

\* str::rfind(c) as a 0-based index, -1 for None
RFind(str, c) ==
    LET at == {i \in 1..Len(str) : str[i] = c}
    IN IF at = {} THEN 0 - 1 ELSE (CHOOSE i \in at : \A j \in at : i >= j) - 1

\* &str[first + 1..last] with first = 0 when last > first, else &str[first + 1..]
Unwrap(str, last) ==
    IF last > 0 THEN SubSeq(str, 2, last) ELSE SubSeq(str, 2, Len(str))

clean_filename(file_name) ==
    LET trimmed == Trim(file_name)
        unquoted == IF trimmed # <<>> /\ trimmed[1] = QUOTE
                      THEN Unwrap(trimmed, RFind(trimmed, QUOTE))
                      ELSE trimmed
        unbraced == IF unquoted # <<>> /\ unquoted[1] = LBRACE
                      THEN Unwrap(unquoted, RFind(unquoted, RBRACE))
                      ELSE unquoted
        result == Trim(unbraced)
    IN IF result = NameTexPoolLong THEN NameTexPool ELSE result

----------------------------------------------------------------------------
(* The host imports.  Each returns the file system and the memory after    *)
(* the call, its return value, and whether the call panicked.              *)

Outcome(v, m, val, out, panic) ==
    [vfs |-> v, mem |-> m, val |-> val, out |-> out, panic |-> panic]

Panic(v, m) == Outcome(v, m, 0, <<>>, TRUE)

BoolToInt(b) == IF b THEN 1 ELSE 0

\* close putting the cursor of the descriptor back to the start of its stream
close_rewinds(v, m, fd) ==
    Outcome(IF HasFd(v, fd) THEN [v EXCEPT !.fd_to_file_pointer[fd + 1].position = 0] ELSE v,
            m, 0, <<>>, FALSE)

close(v, m, fd) == Outcome(v, m, 0, <<>>, FALSE)

eof(v, m, fd) ==
    LET r == get_file_pointer_by_index(v, fd)
    IN IF ~r.some THEN Panic(v, m)
       ELSE Outcome(v, m, BoolToInt(file_pointer_at_eof(v, r.fp)), <<>>, FALSE)

eoln(v, m, fd) ==
    LET r == get_file_pointer_by_index(v, fd)
    IN IF ~r.some THEN Panic(v, m)
       ELSE Outcome(v, m, BoolToInt(file_pointer_at_eoln(v, r.fp)), <<>>, FALSE)

erstat(v, m, fd) ==
    LET r == get_file_pointer_by_index(v, fd)
    IN IF ~r.some THEN Panic(v, m)
       ELSE Outcome(v, m, r.fp.erstat, <<>>, FALSE)

get(v, m, fd, pointer, length) ==
    LET r == get_file_pointer_by_index(v, fd)
    IN IF ~r.some THEN Panic(v, m)
       ELSE LET rd == read_from_file_by_index(v, fd, length)
                file_contents == rd.out
                w == IF Len(file_contents) = 0
                       THEN MemWrite(m, pointer, <<0>>)
                       ELSE MemWrite(m, pointer, file_contents)
            IN Outcome(rd.vfs, w.mem, 0, file_contents, w.panic)

\* while let Some(&b' ') = input_line.last() { input_line.pop(); }
RECURSIVE StripTrailingSpaces(_)
StripTrailingSpaces(line) ==
    IF line # <<>> /\ line[Len(line)] = SP
      THEN StripTrailingSpaces(SubSeq(line, 1, Len(line) - 1))
      ELSE line

input_ln(v, m, fd, bypass_eoln, buf_pointer, first_pointer, last_pointer) ==
    LET rf == read_memory(m, first_pointer, 4)
    IN IF rf.panic THEN Panic(v, m) ELSE
    LET first == u8_to_u32(rf.bytes)
        \* set_last(first): an early return leaves last = first
        w1 == MemWrite(m, last_pointer, to_ne_bytes(first))
    IN IF w1.panic THEN Panic(v, m) ELSE
    LET r1 == IF bypass_eoln # 0
                THEN read_from_file_by_index(v, fd, 1)
                ELSE [vfs |-> v, out |-> <<>>]
        first_char == IF r1.out # <<>> /\ r1.out[Len(r1.out)] = LF THEN <<>> ELSE r1.out
        v1 == r1.vfs
        file_len == get_length(v1, fd)
    IN IF at_eof_by_index(v1, fd) THEN Outcome(v1, w1.mem, 0, <<>>, FALSE) ELSE
    LET newline_offset == next_newline_offset_by_index(v1, fd).val
        current_file_position == get_file_pointer_by_index(v1, fd).fp.position
        r2 == IF newline_offset > current_file_position
                THEN read_from_file_by_index(v1, fd, newline_offset - current_file_position)
                ELSE [vfs |-> v1, out |-> <<>>]
        input_line == first_char \o r2.out
        v2 == r2.vfs
        \* the word at first_pointer is read again after set_last
        first_again == u8_to_u32(read_memory(w1.mem, first_pointer, 4).bytes)
        w2 == MemWrite(w1.mem, buf_pointer + first_again, input_line)
    IN IF w2.panic THEN Panic(v2, w1.mem) ELSE
    LET stripped == StripTrailingSpaces(input_line)
        last_plus == first + Len(stripped) + 1
    IN \* file_len as u32 - 1 underflows for an empty stream: a panic in a debug build,
       \* and in a release build 2^32 - 1, on which get_file_byte panics
       IF last_plus >= file_len /\ file_len = 0 THEN Panic(v2, w2.mem) ELSE
    LET last == IF last_plus >= file_len THEN file_len - 1 ELSE last_plus
        b == get_file_byte(v2, fd, last)
    IN IF b.panic THEN Panic(v2, w2.mem) ELSE
    LET w3 == MemWrite(w2.mem, last_pointer, to_ne_bytes(last))
    IN Outcome(v2, w3.mem, 1, stripped, w3.panic)

print_char(v, m, fd, c) ==
    Outcome(write_to_file_by_index(v, fd, <<AsU8(c)>>), m, 0, <<>>, FALSE)

print_integer(v, m, fd, n) == Outcome(v, m, 0, <<>>, FALSE)

print_newline(v, m, fd) ==
    Outcome(write_to_file_by_index(v, fd, <<LF>>), m, 0, <<>>, FALSE)

print_string(v, m, fd, pointer) ==
    LET rl == read_memory(m, pointer, 1)
    IN IF rl.panic THEN Panic(v, m) ELSE
    LET str_len == rl.bytes[1]
        rs == read_memory(m, pointer + 1, str_len)
    IN IF rs.panic THEN Panic(v, m)
       \* the println! unwraps the file pointer
       ELSE IF ~get_file_pointer_by_index(v, fd).some THEN Panic(v, m)
       ELSE Outcome(write_to_file_by_index(v, fd, rs.bytes), m, 0, rs.bytes, FALSE)

put(v, m, fd, pointer, length) == Outcome(v, m, 0, <<>>, FALSE)

reset(v, m, length, pointer) ==
    LET rn == read_memory(m, pointer, length)
    IN IF rn.panic THEN Panic(v, m) ELSE
    LET file_name == clean_filename(rn.bytes)
        file == IF file_name = NameTTY THEN Stdin ELSE Named(file_name)
        r == get_file_descriptor(v, file, TRUE)
    IN Outcome(r.vfs, m, r.fd, file_name, FALSE)

\* rewrite opening the way reset does
rewrite_as_reset(v, m, length, pointer) ==
    LET rn == read_memory(m, pointer, length)
    IN IF rn.panic THEN Panic(v, m) ELSE
    LET file_name == clean_filename(rn.bytes)
        file == IF file_name = NameTTY THEN Stdin ELSE Named(file_name)
        r == get_file_descriptor(v, file, TRUE)
    IN Outcome(r.vfs, m, r.fd, file_name, FALSE)

rewrite(v, m, length, pointer) ==
    LET rn == read_memory(m, pointer, length)
    IN IF rn.panic THEN Panic(v, m) ELSE
    LET file_name == clean_filename(rn.bytes)
        file == IF file_name = NameTTY THEN Stdout ELSE Named(file_name)
        r == get_file_descriptor(v, file, FALSE)
    IN Outcome(r.vfs, m, r.fd, file_name, FALSE)

----------------------------------------------------------------------------
(* The guest calling the host imports *)

\* where the guest keeps things in its memory: the words `first` and `last`, the line
\* buffer (6 bytes), the bytes "t" (with the quotes, 3 bytes), the bytes TTY:, a string
\* (length byte 1, then A) and a string of length 0
Guest ==
    [first_pointer |-> 0, last_pointer |-> 4, buf_pointer |-> 8, name_pointer |-> 14,
     tty_pointer |-> 17, str_pointer |-> 21, empty_str_pointer |-> 23]

\* guest memory when the guest starts calling, with `first` = first
InitMem(first) ==
    LET layout == to_ne_bytes(first) \o <<0, 0, 0, 0>> \o <<0, 0, 0, 0, 0, 0>>
                    \o <<QUOTE, 116, QUOTE>> \o NameTTY \o <<1, 65>> \o <<0>>
    IN layout \o Repeat(0, MemSize - Len(layout))

FirstValues == {1}

\* files handed to VirtualFileSystem::new, and the bytes handed to set_stdin, before
\* the imports are created
HostSeedFiles == {<<>>, [n \in {NameT} |-> <<72>>]}
HostStdin == {<<65, SP, LF>>}

\* (length, pointer) of the file names the guest opens; the last lies outside memory
NameArgs == {<<3, Guest.name_pointer>>, <<4, Guest.tty_pointer>>, <<2, MemSize - 1>>}

GetPtrs == {Guest.buf_pointer}

StrPtrs == {Guest.str_pointer, Guest.empty_str_pointer}

\* the i32 handed to printChar: a space, with a bit above the low 8 set
PrintChars == {SP + 256}

\* the descriptors the guest passes: -1, every open one, and the first unopened one
HostFdArgs == (0 - 1)..Len(fd_to_file_pointer)

InstallOutcome(r) ==
    /\ Install(r.vfs)
    /\ mem' = r.mem

HostClose ==
    /\ UNCHANGED runner_and_machine
    /\ Alive
    /\ \E fd \in HostFdArgs :
        LET r == close(Self, mem, fd)
        IN /\ InstallOutcome(r)
           /\ ret' = [NoRet EXCEPT !.op = "close", !.fd = fd]

HostEof ==
    /\ UNCHANGED runner_and_machine
    /\ Alive
    /\ \E fd \in HostFdArgs :
        LET r == eof(Self, mem, fd)
        IN /\ InstallOutcome(r)
           /\ ret' = [NoRet EXCEPT !.op = "eof", !.fd = fd, !.val = r.val, !.panic = r.panic]

HostEoln ==
    /\ UNCHANGED runner_and_machine
    /\ Alive
    /\ \E fd \in HostFdArgs :
        LET r == eoln(Self, mem, fd)
        IN /\ InstallOutcome(r)
           /\ ret' = [NoRet EXCEPT !.op = "eoln", !.fd = fd, !.val = r.val, !.panic = r.panic]

HostErstat ==
    /\ UNCHANGED runner_and_machine
    /\ Alive
    /\ \E fd \in HostFdArgs :
        LET r == erstat(Self, mem, fd)
        IN /\ InstallOutcome(r)
           /\ ret' = [NoRet EXCEPT !.op = "erstat", !.fd = fd, !.val = r.val, !.panic = r.panic]

HostGet ==
    /\ UNCHANGED runner_and_machine
    /\ Alive
    /\ \E fd \in HostFdArgs, pointer \in GetPtrs, length \in 0..MaxRead :
        LET r == get(Self, mem, fd, pointer, length)
        IN /\ HostBounded(r.vfs)
           /\ InstallOutcome(r)
           /\ ret' = [NoRet EXCEPT !.op = "get", !.fd = fd, !.n = length, !.ptr = pointer,
                                   !.out = r.out, !.panic = r.panic]

HostInputLn ==
    /\ UNCHANGED runner_and_machine
    /\ Alive
    /\ \E fd \in HostFdArgs, bypass_eoln \in {0, 1} :
        LET r == input_ln(Self, mem, fd, bypass_eoln, Guest.buf_pointer,
                          Guest.first_pointer, Guest.last_pointer)
        IN /\ HostBounded(r.vfs)
           /\ InstallOutcome(r)
           /\ ret' = [NoRet EXCEPT !.op = "input_ln", !.fd = fd, !.n = bypass_eoln,
                                   !.val = r.val, !.out = r.out, !.panic = r.panic]

HostPrintChar ==
    /\ UNCHANGED runner_and_machine
    /\ Alive
    /\ \E fd \in HostFdArgs, c \in PrintChars :
        LET r == print_char(Self, mem, fd, c)
        IN /\ WriteBounded(r.vfs, fd)
           /\ InstallOutcome(r)
           /\ ret' = [NoRet EXCEPT !.op = "print_char", !.fd = fd, !.n = c]

HostPrintInteger ==
    /\ UNCHANGED runner_and_machine
    /\ Alive
    /\ \E fd \in HostFdArgs, n \in {0 - 7} :
        LET r == print_integer(Self, mem, fd, n)
        IN /\ InstallOutcome(r)
           /\ ret' = [NoRet EXCEPT !.op = "print_integer", !.fd = fd, !.val = n]

HostPrintNewline ==
    /\ UNCHANGED runner_and_machine
    /\ Alive
    /\ \E fd \in HostFdArgs :
        LET r == print_newline(Self, mem, fd)
        IN /\ WriteBounded(r.vfs, fd)
           /\ InstallOutcome(r)
           /\ ret' = [NoRet EXCEPT !.op = "print_newline", !.fd = fd]

HostPrintString ==
    /\ UNCHANGED runner_and_machine
    /\ Alive
    /\ \E fd \in HostFdArgs, pointer \in StrPtrs :
        LET r == print_string(Self, mem, fd, pointer)
        IN /\ WriteBounded(r.vfs, fd)
           /\ InstallOutcome(r)
           /\ ret' = [NoRet EXCEPT !.op = "print_string", !.fd = fd, !.ptr = pointer,
                                   !.arg = r.out, !.panic = r.panic]

HostPut ==
    /\ UNCHANGED runner_and_machine
    /\ Alive
    /\ \E fd \in HostFdArgs, pointer \in {Guest.str_pointer + 1}, length \in {1} :
        LET r == put(Self, mem, fd, pointer, length)
        IN /\ InstallOutcome(r)
           /\ ret' = [NoRet EXCEPT !.op = "put", !.fd = fd, !.ptr = pointer, !.n = length]

HostReset ==
    /\ UNCHANGED runner_and_machine
    /\ Alive
    /\ Len(fd_to_file_pointer) < HostMaxFds
    /\ \E a \in NameArgs :
        LET r == reset(Self, mem, a[1], a[2])
        IN /\ InstallOutcome(r)
           /\ ret' = [NoRet EXCEPT !.op = "reset", !.n = a[1], !.ptr = a[2], !.arg = r.out,
                                   !.val = r.val, !.panic = r.panic]

HostRewrite ==
    /\ UNCHANGED runner_and_machine
    /\ Alive
    /\ Len(fd_to_file_pointer) < HostMaxFds
    /\ \E a \in NameArgs :
        LET r == rewrite(Self, mem, a[1], a[2])
        IN /\ InstallOutcome(r)
           /\ ret' = [NoRet EXCEPT !.op = "rewrite", !.n = a[1], !.ptr = a[2], !.arg = r.out,
                                   !.val = r.val, !.panic = r.panic]

HostInit ==
    /\ \E files \in HostSeedFiles, bytes \in HostStdin :
        LET v == set_stdin(new(files), bytes)
        IN /\ data = v.data
           /\ stdin = v.stdin
           /\ stdout = v.stdout
           /\ fd_to_file_pointer = v.fd_to_file_pointer
    /\ \E first \in FirstValues : mem = InitMem(first)
    /\ ret = NoRet
    /\ has_run = FALSE
    /\ main_calls = 0
    /\ machine = NoMachine

HostNext ==
    \/ HostClose
    \/ HostEof
    \/ HostEoln
    \/ HostErstat
    \/ HostGet
    \/ HostInputLn
    \/ HostPrintChar
    \/ HostPrintInteger
    \/ HostPrintNewline
    \/ HostPrintString
    \/ HostPut
    \/ HostReset
    \/ HostRewrite

HostSpec == HostInit /\ [][HostNext]_vars

----------------------------------------------------------------------------
(* The SVG machine of dvi2svg (svgmachine.rs).  Strings that the code takes *)
(* apart (special commands, raw SVG) are sequences of bytes; strings it     *)
(* only passes on (colours, font names) are strings.  Lengths are whole     *)
(* numbers of points or DVI units.                                          *)

\* Option<T>: <<>> is None and <<x>> is Some(x)
None == <<>>
Some(x) == <<x>>
unwrap_or(option, default) == IF option = None THEN default ELSE option[1]

\* str::starts_with
StartsWith(str, pattern) ==
    Len(str) >= Len(pattern) /\ SubSeq(str, 1, Len(pattern)) = pattern

\* str::split_at(n).1
After(str, n) == SubSeq(str, n + 1, Len(str))

\* str::replace: every match of pattern, from the left, without overlap
RECURSIVE Replace(_, _, _)
Replace(str, pattern, with) ==
    IF Len(str) < Len(pattern) THEN str
    ELSE IF StartsWith(str, pattern)
           THEN with \o Replace(After(str, Len(pattern)), pattern, with)
           ELSE <<str[1]>> \o Replace(After(str, 1), pattern, with)

\* str::matches(pattern).count()
RECURSIVE Matches(_, _)
Matches(str, pattern) ==
    IF Len(str) < Len(pattern) THEN 0
    ELSE IF StartsWith(str, pattern)
           THEN 1 + Matches(After(str, Len(pattern)), pattern)
           ELSE Matches(After(str, 1), pattern)

\* str::split(sep) for a one-byte separator
RECURSIVE Split(_, _)
Split(str, sep) ==
    LET at == {i \in 1..Len(str) : str[i] = sep}
    IN IF at = {} THEN <<str>>
       ELSE LET i == CHOOSE k \in at : \A j \in at : k <= j
            IN <<SubSeq(str, 1, i - 1)>> \o Split(After(str, i), sep)

\* str::parse::<f64> on a string of decimal digits; anything else is an Err here
RECURSIVE DigitsValue(_)
DigitsValue(str) ==
    IF str = <<>> THEN 0
    ELSE 10 * DigitsValue(SubSeq(str, 1, Len(str) - 1)) + (str[Len(str)] - 48)

parse_f64(str) ==
    IF str # <<>> /\ \A i \in 1..Len(str) : str[i] \in 48..57
      THEN [ok |-> TRUE, val |-> DigitsValue(str)]
      ELSE [ok |-> FALSE, val |-> 0]

\* f64::to_string of a whole number
f64_to_string(x) == Decimal(x)

\* the strings the specials are matched against
PatColorPop == <<99, 111, 108, 111, 114, 32, 112, 111, 112>>      \* "color pop"
PatColorPush == <<99, 111, 108, 111, 114, 32, 112, 117, 115, 104, 32>>    \* "color push "
PatPapersize == <<112, 97, 112, 101, 114, 115, 105, 122, 101, 61>>    \* "papersize="
PatRaw == <<100, 118, 105, 115, 118, 103, 109, 58, 114, 97, 119, 32>>                \* "dvisvgm:raw "
COMMA == 44
TokX == <<123, 63, 120, 125>>                 \* "{?x}"
TokY == <<123, 63, 121, 125>>                 \* "{?y}"
TokNl == <<123, 63, 110, 108, 125>>               \* "{?nl}"
TokBeginPicture == <<60, 115, 118, 103, 32, 98, 101, 103, 105, 110, 112, 105, 99, 116, 117, 114, 101, 62>>  \* "<svg beginpicture>"
TokEndPicture == <<60, 47, 115, 118, 103, 32, 101, 110, 100, 112, 105, 99, 116, 117, 114, 101, 62>>      \* "</svg endpicture>"
TokSvgOpen == <<60, 115, 118, 103, 62>>        \* "<svg>"
TokSvgClose == <<60, 47, 115, 118, 103, 62>>      \* "</svg>"

\* Position { h, v }
Position(h, v) == [h |-> h, v |-> v]
Position_empty == Position(0, 0)

SVGMachine_new ==
    [content |-> <<>>, color |-> "black", color_stack |-> <<>>,
     points_per_dvi_unit |-> None, svg_depth |-> 1,
     paperwidth |-> None, paperheight |-> None,
     position |-> Position_empty, position_stack |-> <<>>,
     font |-> None, fonts |-> <<>>, nb_pages |-> 0, svg_buffer |-> <<>>]

\* what a method of the machine gives back: the machine afterwards, the value it
\* returns and whether it panicked
MOut(m, val, panic) == [machine |-> m, val |-> val, panic |-> panic]

\* the document: the fixed shell with width, height and viewBox filled in, around content
get_content(m) ==
    LET width == f64_to_string(unwrap_or(m.paperwidth, 100))
        height == f64_to_string(unwrap_or(m.paperheight, 100))
    IN [width |-> width, height |-> height,
        viewBox |-> <<Decimal(0 - 72), Decimal(0 - 72), width, height>>,
        content |-> m.content]

set_nb_pages(m, nb_pages) == [m EXCEPT !.nb_pages = nb_pages]

\* the font metrics of dvi2html::tfm for the fonts of the model: design_size in
\* units of 2^-20 pt, and width, height and depth of the characters that have metrics
FontDataHelper ==
    [cmr10 |-> [design_size |-> 10485760,
                characters |-> (65 :> [width |-> 16, height |-> 16, depth |-> 0]
                                @@ 126 :> [width |-> 32, height |-> 16, depth |-> 0])],
     cmb10 |-> [design_size |-> 10485760,
                characters |-> (126 :> [width |-> 32, height |-> 16, depth |-> 0])]]

\* FontDef { number, scale_factor, design_size, filename }
FontDef(number, scale_factor, design_size, filename) ==
    [number |-> number, scale_factor |-> scale_factor, design_size |-> design_size,
     filename |-> filename]

\* the text put between <text> and </text> for character c
html_entity(c) ==
    LET entity(n) == <<38, 35>> \o Decimal(n) \o <<59>>
    IN IF c <= 9 THEN entity(161 + c)
       ELSE IF c >= 10 /\ c <= 19 THEN entity(173 + c - 10)
       ELSE IF c = 20 THEN entity(8729)
       ELSE IF c >= 21 /\ c <= 32 THEN entity(184 + c - 21)
       ELSE IF c = 127 THEN entity(196)
       ELSE <<c>>

\* the characters of buffer that have a metric (their own or that of character 126)
RECURSIVE Glyphs(_, _)
Glyphs(buffer, font_data) ==
    IF buffer = <<>> THEN <<>>
    ELSE LET c == buffer[1]
             rest == Glyphs(After(buffer, 1), font_data)
         IN IF c \in DOMAIN font_data.characters
              THEN <<[c |-> c, metrics |-> font_data.characters[c]]>> \o rest
              ELSE IF 126 \in DOMAIN font_data.characters
                     THEN <<[c |-> c, metrics |-> font_data.characters[126]]>> \o rest
                     ELSE rest

RECURSIVE SumWidth(_)
SumWidth(glyphs) ==
    IF glyphs = <<>> THEN 0 ELSE glyphs[1].metrics.width + SumWidth(After(glyphs, 1))

RECURSIVE HtmlText(_)
HtmlText(glyphs) ==
    IF glyphs = <<>> THEN <<>> ELSE html_entity(glyphs[1].c) \o HtmlText(After(glyphs, 1))

put_text(m, buffer, font_helper) ==
    IF m.font = None THEN MOut(m, 0, TRUE) ELSE
    LET font == m.font[1]
        font_name == font.filename
        font_data == IF font_name \in DOMAIN font_helper
                       THEN font_helper[font_name] ELSE font_helper["cmb10"]
        glyphs == Glyphs(buffer, font_data)
        text_width == SumWidth(glyphs)
    IN IF m.points_per_dvi_unit = None THEN MOut(m, 0, TRUE) ELSE
    LET points_per_dvi_unit == m.points_per_dvi_unit[1]
        left == m.position.h * points_per_dvi_unit
        bottom == m.position.v * points_per_dvi_unit
        fontsize == ((font_data.design_size \div 1048576) * font.scale_factor)
                      \div font.design_size
        \* text_width * (design_size / 2^20 * 2^16 / 2^20) * scale_factor / design_size
        advance == ((((font_data.design_size \div 1048576) * text_width) \div 16)
                      * font.scale_factor) \div font.design_size
        element == [tag |-> "text", y |-> bottom, x |-> left, font_family |-> font_name,
                    fill |-> m.color, font_size |-> fontsize, text |-> HtmlText(glyphs)]
    IN MOut([m EXCEPT !.content = Append(@, element)], advance, FALSE)

put_rule(m, ai, bi) ==
    IF m.points_per_dvi_unit = None THEN MOut(m, 0, TRUE) ELSE
    LET points_per_dvi_unit == m.points_per_dvi_unit[1]
        a == ai * points_per_dvi_unit
        b == bi * points_per_dvi_unit
        left == m.position.h * points_per_dvi_unit
        bottom == m.position.v * points_per_dvi_unit
        top == bottom - a
        element == [tag |-> "rect", x |-> left, y |-> top, width |-> b, height |-> a,
                    fill |-> m.color]
    IN MOut([m EXCEPT !.content = Append(@, element)], 0, FALSE)

\* begin_page with the reset of the position that the source leaves commented out
begin_page_resetting_position(m) ==
    [m EXCEPT !.position_stack = <<>>, !.position = Position_empty]

begin_page(m) == [m EXCEPT !.position_stack = <<>>]

end_page(m) == m

push_position(m) == [m EXCEPT !.position_stack = Append(@, m.position)]

pop_position(m) ==
    IF m.position_stack = <<>> THEN MOut(m, 0, TRUE)
    ELSE MOut([m EXCEPT !.position = m.position_stack[Len(m.position_stack)],
                        !.position_stack = SubSeq(@, 1, Len(@) - 1)], 0, FALSE)

set_font(m, index) ==
    [m EXCEPT !.font = IF index \in DOMAIN m.fonts THEN Some(m.fonts[index]) ELSE None]

add_font(m, font) ==
    [m EXCEPT !.fonts = [n \in DOMAIN m.fonts \cup {font.number} |->
                            IF n = font.number THEN font ELSE m.fonts[n]]]

\* PreambleData { magnification, numerator, denominator }
PreambleData(magnification, numerator, denominator) ==
    [magnification |-> magnification, numerator |-> numerator,
     denominator |-> denominator]

\* mag * num / (1000 * den) * 72.27 / 100000 / 2.54, which is
\* (mag / 1000) * (num / 25400000) * (7227 / den); a whole number for the
\* preambles of the model
set_preamble_data(m, d) ==
    [m EXCEPT !.points_per_dvi_unit =
        Some((d.magnification \div 1000) * (d.numerator \div 25400000)
               * (7227 \div d.denominator))]

\* the colour specifications of the model and the CSS colours they stand for
SpecRed == <<114, 103, 98, 32, 49, 32, 48, 32, 48>>     \* "rgb 1 0 0"
SpecBlue == <<98, 108, 117, 101>>         \* "blue"

tex_color_to_hex(tex_color) ==
    CASE tex_color = SpecRed -> "#ff0000"
      [] tex_color = SpecBlue -> "blue"

special_color(m, command) ==
    IF StartsWith(command, PatColorPop)
      THEN IF m.color_stack = <<>> THEN MOut(m, FALSE, TRUE)
           ELSE MOut([m EXCEPT !.color = m.color_stack[Len(m.color_stack)],
                               !.color_stack = SubSeq(@, 1, Len(@) - 1)], TRUE, FALSE)
    ELSE IF StartsWith(command, PatColorPush)
      THEN LET color == tex_color_to_hex(After(command, Len(PatColorPush)))
           IN MOut([m EXCEPT !.color_stack = Append(@, color), !.color = color],
                   TRUE, FALSE)
    ELSE MOut(m, FALSE, FALSE)

\* special_papersize keeping the size of the first papersize special
special_papersize_keep_first(m, command) ==
    IF ~StartsWith(command, PatPapersize) THEN MOut(m, FALSE, FALSE) ELSE
    LET sizes == Split(After(command, Len(PatPapersize)), COMMA)
    IN IF Len(sizes[1]) < 2 THEN MOut(m, FALSE, TRUE) ELSE
    LET width == parse_f64(SubSeq(sizes[1], 1, Len(sizes[1]) - 2))
    IN IF ~width.ok THEN MOut(m, FALSE, TRUE)
       ELSE IF Len(sizes) < 2 THEN MOut(m, FALSE, TRUE)
       ELSE IF Len(sizes[2]) < 2 THEN MOut(m, FALSE, TRUE) ELSE
    LET height == parse_f64(SubSeq(sizes[2], 1, Len(sizes[2]) - 2))
    IN IF ~height.ok THEN MOut(m, FALSE, TRUE)
       ELSE IF m.paperwidth # None THEN MOut(m, FALSE, FALSE)
       ELSE MOut([m EXCEPT !.paperwidth = Some(width.val),
                           !.paperheight = Some(height.val)], FALSE, FALSE)

special_papersize(m, command) ==
    IF ~StartsWith(command, PatPapersize) THEN MOut(m, FALSE, FALSE) ELSE
    LET sizes == Split(After(command, Len(PatPapersize)), COMMA)
    IN \* sizes[0].len() - 2 underflows, or split_at is out of range
       IF Len(sizes[1]) < 2 THEN MOut(m, FALSE, TRUE) ELSE
    LET width == parse_f64(SubSeq(sizes[1], 1, Len(sizes[1]) - 2))
    IN IF ~width.ok THEN MOut(m, FALSE, TRUE)
       ELSE IF Len(sizes) < 2 THEN MOut(m, FALSE, TRUE)
       ELSE IF Len(sizes[2]) < 2 THEN MOut(m, FALSE, TRUE) ELSE
    LET height == parse_f64(SubSeq(sizes[2], 1, Len(sizes[2]) - 2))
    IN IF ~height.ok THEN MOut(m, FALSE, TRUE)
       ELSE MOut([m EXCEPT !.paperwidth = Some(width.val),
                           !.paperheight = Some(height.val)], FALSE, FALSE)

append_svg(m, str) == [m EXCEPT !.svg_buffer = @ \o str]

\* svg_depth is a u8: the sums wrap in a release build (a debug build panics instead;
\* neither happens while the payloads open as many <svg> as they close)
put_svg(m) ==
    IF m.points_per_dvi_unit = None THEN MOut(m, 0, TRUE) ELSE
    LET points_per_dvi_unit == m.points_per_dvi_unit[1]
        left == m.position.h * points_per_dvi_unit
        top == m.position.v * points_per_dvi_unit
        depth == (m.svg_depth + Matches(m.svg_buffer, TokSvgOpen)
                    + 256 - (Matches(m.svg_buffer, TokSvgClose) % 256)) % 256
        r1 == Replace(m.svg_buffer, TokX, f64_to_string(left))
        r2 == Replace(r1, TokY, f64_to_string(top))
        r3 == Replace(r2, TokNl, <<LF>>)
        r4 == Replace(r3, TokBeginPicture, <<>>)
        result_svg == Replace(r4, TokEndPicture, <<>>)
    IN MOut([m EXCEPT !.svg_depth = depth,
                      !.content = Append(@, [tag |-> "raw", svg |-> result_svg]),
                      !.svg_buffer = <<>>], 0, FALSE)

\* special_svg leaving the buffered payload where it is on a special that is not raw
special_svg_never_flushes(m, command) ==
    IF StartsWith(command, PatRaw)
      THEN MOut(append_svg(m, After(command, Len(PatRaw))), TRUE, FALSE)
      ELSE MOut(m, FALSE, FALSE)

special_svg(m, command) ==
    IF StartsWith(command, PatRaw)
      THEN MOut(append_svg(m, After(command, Len(PatRaw))), TRUE, FALSE)
    ELSE IF m.svg_buffer # <<>>
      THEN LET r == put_svg(m) IN MOut(r.machine, FALSE, r.panic)
    ELSE MOut(m, FALSE, FALSE)

special_html_color(m, command) == special_color(m, command)

special_html_papersize(m, command) == special_papersize(m, command)

special_html_svg(m, command) == special_svg(m, command)

\* the handlers dvi2svg registers, in its order
special_handlers == <<"special_html_svg", "special_html_color", "special_html_papersize">>

\* special(self, command) for the handler of that name
CallHandler(special, m, command) ==
    CASE special = "special_html_svg" -> special_html_svg(m, command)
      [] special = "special_html_color" -> special_html_color(m, command)
      [] special = "special_html_papersize" -> special_html_papersize(m, command)

RECURSIVE handle_special(_, _, _)
RECURSIVE handle_special_no_break(_, _, _)

\* handle_special going on to the next handler after one has returned true
handle_special_no_break(m, handlers, command) ==
    IF handlers = <<>> THEN MOut(m, <<>>, FALSE)
    ELSE Bind(CallHandler(handlers[1], m, command), LAMBDA r :
         Bind([handler |-> handlers[1], returned |-> r.val], LAMBDA called :
           IF r.panic THEN MOut(r.machine, <<called>>, TRUE)
           ELSE Bind(handle_special_no_break(r.machine, After(handlers, 1), command),
                     LAMBDA rest :
                       MOut(rest.machine, <<called>> \o rest.val, rest.panic))))

\* for special in special_handlers.iter() { if special(self, command) { break; } }
\* val lists the handlers that were called, with what each returned
handle_special(m, handlers, command) ==
    IF handlers = <<>> THEN MOut(m, <<>>, FALSE)
    ELSE Bind(CallHandler(handlers[1], m, command), LAMBDA r :
         Bind([handler |-> handlers[1], returned |-> r.val], LAMBDA called :
           IF r.panic THEN MOut(r.machine, <<called>>, TRUE)
           ELSE IF r.val THEN MOut(r.machine, <<called>>, FALSE)
           ELSE Bind(handle_special(r.machine, After(handlers, 1), command),
                     LAMBDA rest :
                       MOut(rest.machine, <<called>> \o rest.val, rest.panic))))

----------------------------------------------------------------------------
(* The calls the DVI executor makes on the machine.  A DVI file starts with *)
(* its preamble, so set_preamble_data comes before every other call.        *)

\* commands of the specials of the model
CmdPushRed == PatColorPush \o SpecRed
CmdPushBlue == PatColorPush \o SpecBlue
CmdPop == PatColorPop
CmdRawX == PatRaw \o <<60, 103, 62, 123, 63, 120, 125>>                  \* "dvisvgm:raw <g>{?x}"
CmdRawPicture == PatRaw \o TokBeginPicture \o TokNl   \* "dvisvgm:raw <svg beginpicture>{?nl}"
CmdPaperA == PatPapersize \o <<49, 48, 112, 116, 44, 50, 48, 112, 116>>        \* "papersize=10pt,20pt"
CmdPaperB == PatPapersize \o <<51, 48, 112, 116, 44, 52, 48, 112, 116>>        \* "papersize=30pt,40pt"
CmdPaperShort == PatPapersize \o <<49, 48, 112, 116>>         \* "papersize=10pt"
CmdHeader == <<104, 101, 97, 100, 101, 114, 61, 97>>                         \* "header=a"

Commands ==
    {CmdPushRed, CmdPushBlue, CmdPop, CmdRawX, CmdRawPicture, CmdPaperA, CmdPaperB,
     CmdPaperShort, CmdHeader}

Preambles == {PreambleData(1000, 25400000, 7227)}

Fonts == {FontDef(0, 10, 10, "cmr10")}

FontIndexes == {0, 1}

Texts == {<<65>>}

Rules == {<<1, 2>>}

Started == machine.points_per_dvi_unit # None

MRet(op, arg, val, out, panic) ==
    [NoRet EXCEPT !.op = op, !.arg = arg, !.val = val, !.out = out, !.panic = panic]

vfs_and_runner == <<data, stdin, stdout, fd_to_file_pointer, mem, has_run, main_calls>>

MachineSetPreambleData ==
    /\ Alive /\ ~Started
    /\ \E d \in Preambles : machine' = set_preamble_data(machine, d)
    /\ ret' = MRet("set_preamble_data", <<>>, 0, <<>>, FALSE)
    /\ UNCHANGED vfs_and_runner

MachineAddFont ==
    /\ Alive /\ Started
    /\ \E font \in Fonts : machine' = add_font(machine, font)
    /\ ret' = MRet("add_font", <<>>, 0, <<>>, FALSE)
    /\ UNCHANGED vfs_and_runner

MachineSetFont ==
    /\ Alive /\ Started
    /\ \E index \in FontIndexes : machine' = set_font(machine, index)
    /\ ret' = MRet("set_font", <<>>, 0, <<>>, FALSE)
    /\ UNCHANGED vfs_and_runner

\* set_char / put_char: the text is put and the position moves right by the advance
MachinePutText ==
    /\ Alive /\ Started
    /\ Len(machine.content) < MaxContent
    /\ \E buffer \in Texts :
        LET r == put_text(machine, buffer, FontDataHelper)
        IN /\ machine' = r.machine
           /\ ret' = MRet("put_text", buffer, r.val, <<>>, r.panic)
    /\ UNCHANGED vfs_and_runner

MachinePutRule ==
    /\ Alive /\ Started
    /\ Len(machine.content) < MaxContent
    /\ \E rule \in Rules :
        LET r == put_rule(machine, rule[1], rule[2])
        IN /\ machine' = r.machine
           /\ ret' = MRet("put_rule", <<>>, 0, <<>>, r.panic)
    /\ UNCHANGED vfs_and_runner

\* right, down, w, x, y, z: the executor moves through get_position
MachineMove ==
    /\ Alive /\ Started
    /\ \E h \in 0..MaxH :
        /\ h # machine.position.h
        /\ machine' = [machine EXCEPT !.position = Position(h, machine.position.v)]
    /\ ret' = MRet("get_position", <<>>, 0, <<>>, FALSE)
    /\ UNCHANGED vfs_and_runner

MachinePushPosition ==
    /\ Alive /\ Started
    /\ Len(machine.position_stack) < MaxPositionStack
    /\ machine' = push_position(machine)
    /\ ret' = MRet("push_position", <<>>, 0, <<>>, FALSE)
    /\ UNCHANGED vfs_and_runner

\* pop: ret.out holds the position before the call
MachinePopPosition ==
    /\ Alive /\ Started
    /\ LET r == pop_position(machine)
       IN /\ machine' = r.machine
          /\ ret' = MRet("pop_position", <<>>, 0, <<machine.position>>, r.panic)
    /\ UNCHANGED vfs_and_runner

MachineBeginPage ==
    /\ Alive /\ Started
    /\ machine' = begin_page(machine)
    /\ ret' = MRet("begin_page", <<>>, 0, <<>>, FALSE)
    /\ UNCHANGED vfs_and_runner

MachineEndPage ==
    /\ Alive /\ Started
    /\ machine' = end_page(machine)
    /\ ret' = MRet("end_page", <<>>, 0, <<>>, FALSE)
    /\ UNCHANGED vfs_and_runner

\* xxx: ret.val lists the handlers that were called and what each returned, ret.out
\* holds the colour before the call
MachineHandleSpecial ==
    /\ Alive /\ Started
    /\ \E command \in Commands :
        /\ StartsWith(command, PatRaw) => Len(machine.svg_buffer) < MaxBuffer
        /\ StartsWith(command, PatColorPush) => Len(machine.color_stack) < MaxColorStack
        /\ machine.svg_buffer # <<>> => Len(machine.content) < MaxContent
        /\ LET r == handle_special(machine, special_handlers, command)
           IN /\ machine' = r.machine
              /\ ret' = MRet("handle_special", command, r.val, <<machine.color>>, r.panic)
    /\ UNCHANGED vfs_and_runner

MachineGetContent ==
    /\ Alive /\ Started
    /\ machine' = machine
    /\ ret' = MRet("get_content", <<>>, 0, <<get_content(machine)>>, FALSE)
    /\ UNCHANGED vfs_and_runner

MachineInit ==
    /\ data = new(<<>>).data
    /\ stdin = new(<<>>).stdin
    /\ stdout = new(<<>>).stdout
    /\ fd_to_file_pointer = new(<<>>).fd_to_file_pointer
    /\ mem = <<>>
    /\ has_run = FALSE
    /\ main_calls = 0
    /\ machine = SVGMachine_new
    /\ ret = NoRet

MachineNext ==
    \/ MachineSetPreambleData
    \/ MachineAddFont
    \/ MachineSetFont
    \/ MachinePutText
    \/ MachinePutRule
    \/ MachineMove
    \/ MachinePushPosition
    \/ MachinePopPosition
    \/ MachineBeginPage
    \/ MachineEndPage
    \/ MachineHandleSpecial
    \/ MachineGetContent

MachineSpec == MachineInit /\ [][MachineNext]_vars

----------------------------------------------------------------------------
(* dvi2svg (dvi2svg/mod.rs).  The opcodes of the model are single bytes,    *)
(* except xxx1; the operands of pre, fnt_def, put_rule and bop are the ones *)
(* of Preambles, Fonts and Rules.                                           *)

\* the instructions of a DVI file, in the order of its bytes; xxx1 (239) is followed by
\* the length of its command and the command, and a file cut short inside one ends there
RECURSIVE parse_dvi(_)
parse_dvi(input) ==
    IF input = <<>> THEN <<>>
    ELSE Bind(input, LAMBDA bytes :
           Bind(bytes[1], LAMBDA b :
             IF b = 239
               THEN IF Len(bytes) < 2 \/ Len(bytes) < 2 + bytes[2] THEN <<>>
                    ELSE <<[op |-> "xxx", c |-> SubSeq(bytes, 3, 2 + bytes[2])]>>
                           \o parse_dvi(After(bytes, 2 + bytes[2]))
               ELSE <<CASE b \in 0..127 -> [op |-> "set_char", c |-> b]
                        [] b = 137 -> [op |-> "put_rule", c |-> 0]
                        [] b = 139 -> [op |-> "bop", c |-> 0]
                        [] b = 140 -> [op |-> "eop", c |-> 0]
                        [] b = 141 -> [op |-> "push", c |-> 0]
                        [] b = 142 -> [op |-> "pop", c |-> 0]
                        [] b = 171 -> [op |-> "fnt_num", c |-> 0]
                        [] b = 243 -> [op |-> "fnt_def", c |-> 0]
                        [] b = 247 -> [op |-> "pre", c |-> 0]
                        [] OTHER -> [op |-> "undefined", c |-> b]>>
                      \o parse_dvi(After(bytes, 1))))

\* Executor::execute: the call on the machine that an instruction stands for; val is
\* FALSE when it returns an Err
execute(m, ins) ==
    CASE ins.op = "set_char" ->
           LET r == put_text(m, <<ins.c>>, FontDataHelper)
           IN IF r.panic THEN MOut(m, FALSE, TRUE)
              ELSE MOut([r.machine EXCEPT !.position.h = @ + r.val], TRUE, FALSE)
      [] ins.op = "put_rule" ->
           LET r == put_rule(m, 1, 2) IN MOut(r.machine, TRUE, r.panic)
      [] ins.op = "xxx" ->
           Bind(handle_special(m, special_handlers, ins.c), LAMBDA r :
                  MOut(r.machine, TRUE, r.panic))
      [] ins.op = "bop" -> MOut(begin_page(m), TRUE, FALSE)
      [] ins.op = "eop" -> MOut(end_page(m), TRUE, FALSE)
      [] ins.op = "push" -> MOut(push_position(m), TRUE, FALSE)
      [] ins.op = "pop" -> LET r == pop_position(m) IN MOut(r.machine, TRUE, r.panic)
      [] ins.op = "fnt_num" -> MOut(set_font(m, ins.c), TRUE, FALSE)
      [] ins.op = "fnt_def" -> MOut(add_font(m, FontDef(0, 10, 10, "cmr10")), TRUE, FALSE)
      [] ins.op = "pre" ->
           MOut(set_preamble_data(m, PreambleData(1000, 25400000, 7227)), TRUE, FALSE)
      [] OTHER -> MOut(m, FALSE, FALSE)

\* for ins in instructions.iter() { let _ = machine.execute(ins, ..); }
RECURSIVE ExecuteAll(_, _)
ExecuteAll(m, instructions) ==
    IF instructions = <<>> THEN MOut(m, TRUE, FALSE)
    ELSE Bind(execute(m, instructions[1]), LAMBDA r :
           IF r.panic THEN r
           ELSE ExecuteAll(r.machine, After(instructions, 1)))

\* Result<T, E>: value holds the T of an Ok; msg is the message of the error of an Err
\* and attached the text put into the error after the message
Ok(value) == [ok |-> TRUE, value |-> <<value>>, msg |-> "", attached |-> <<>>]
Err(msg, attached) == [ok |-> FALSE, value |-> <<>>, msg |-> msg, attached |-> attached]

dvi2svg(input) ==
    Bind(ExecuteAll(SVGMachine_new, parse_dvi(input)), LAMBDA r :
           [result |-> Ok(get_content(r.machine)), panic |-> r.panic])

----------------------------------------------------------------------------
(* dvi2svg on whole DVI files, one instruction of its loop at a time: ret.arg *)
(* is the file, ret.n the number of instructions executed so far.             *)

\* xxx1 k[1] x[k]
Xxx(command) == <<239, Len(command)>> \o command

CmdPaperTiny == PatPapersize \o <<49, 44, 50>>                          \* "papersize=1,2"
CmdPaperNoPt == PatPapersize \o <<49, 48, 99, 109, 44, 50, 48, 99, 109>>  \* "papersize=10cm,20cm"
CmdPaperNaN == PatPapersize \o <<120, 112, 116, 44, 121, 112, 116>>     \* "papersize=xpt,ypt"

\* pre, fnt_def, fnt_num, bop
DviPrologue == <<247, 243, 171, 139>>

DviPieces ==
    {<<65>>, <<137>>, <<140>>, <<141>>, <<142>>,
     Xxx(CmdRawX), Xxx(CmdPushRed), Xxx(CmdPop), Xxx(CmdHeader), Xxx(CmdPaperA),
     Xxx(CmdPaperShort), Xxx(CmdPaperTiny), Xxx(CmdPaperNoPt), Xxx(CmdPaperNaN)}

\* the files of the model: the prologue and up to three further instructions
DviInputs ==
    {DviPrologue} \cup
    UNION {{DviPrologue \o a, DviPrologue \o a \o b, DviPrologue \o a \o b \o c} :
             <<a, b, c>> \in DviPieces \X DviPieces \X DviPieces}

InLoop == ret.op \in {"dvi2svg", "execute"}

\* let mut machine = SVGMachine::new(); let instructions = parse_dvi(input);
Dvi2SvgCall ==
    /\ Alive /\ ~InLoop
    /\ \E input \in DviInputs :
        ret' = [MRet("dvi2svg", input, 0, <<>>, FALSE) EXCEPT !.n = 0]
    /\ machine' = SVGMachine_new
    /\ UNCHANGED vfs_and_runner

\* let _ = machine.execute(ins, &font_helper, &special_handlers);
Dvi2SvgExecute ==
    /\ Alive /\ InLoop
    /\ ret.n < Len(parse_dvi(ret.arg))
    /\ \E r \in {execute(machine, parse_dvi(ret.arg)[ret.n + 1])} :
        /\ machine' = r.machine
        /\ ret' = [MRet("execute", ret.arg, r.val, <<>>, r.panic) EXCEPT !.n = ret.n + 1]
    /\ UNCHANGED vfs_and_runner

\* Ok(machine.get_content())
Dvi2SvgReturn ==
    /\ Alive /\ InLoop
    /\ ret.n = Len(parse_dvi(ret.arg))
    /\ ret' = [MRet("dvi2svg_return", ret.arg, 0, <<Ok(get_content(machine))>>, FALSE)
                 EXCEPT !.n = ret.n]
    /\ machine' = machine
    /\ UNCHANGED vfs_and_runner

DviNext ==
    \/ Dvi2SvgCall
    \/ Dvi2SvgExecute
    \/ Dvi2SvgReturn

DviSpec == MachineInit /\ [][DviNext]_vars

----------------------------------------------------------------------------
(* The runner (wasm_runner.rs) and the entry points built on it.            *)

\* "input.log", "input.dvi"
NameInputLog == <<105, 110, 112, 117, 116, 46, 108, 111, 103>>
NameInputDvi == <<105, 110, 112, 117, 116, 46, 100, 118, 105>>

\* " input.tex \n\\end\n"
StdinPrompt == <<32, 105, 110, 112, 117, 116, 46, 116, 101, 120, 32, 10, 92, 101, 110, 100, 10>>

\* String::from_utf8_lossy: a byte that is not ASCII becomes U+FFFD (the inputs of the
\* model hold no multi-byte sequence)
from_utf8_lossy(bytes) == [i \in 1..Len(bytes) |-> IF bytes[i] < 128 THEN bytes[i] ELSE 65533]

\* str::as_bytes: UTF-8, three bytes for U+FFFD
RECURSIVE as_bytes(_)
as_bytes(str) ==
    IF str = <<>> THEN <<>>
    ELSE (IF str[1] < 128 THEN <<str[1]>> ELSE <<239, 191, 189>>) \o as_bytes(After(str, 1))

\* the accessors of VirtualFileSystem the runner calls
set_file_contents(v, file, contents) ==
    IF file.kind = "Named" /\ file.name \notin DOMAIN v.data
      THEN [v EXCEPT !.data = [n \in DOMAIN v.data \cup {file.name} |->
                                  IF n = file.name THEN contents ELSE v.data[n]]]
      ELSE WithBuffer(v, file, contents)

get_file_contents(v, file) ==
    IF file.kind = "Named" /\ file.name \notin DOMAIN v.data THEN None
    ELSE Some(Buffer(v, file))

get_stdout(v) == from_utf8_lossy(v.stdout)

\* the files of the bundled archive that the model keeps
extracted_files == <<>>

\* the memory of the guest: the names of the files main opens, then the buffer into
\* which it reads its source
GuestMem ==
    NameInputTex \o NameInputLog \o NameInputDvi \o NameTTY \o Repeat(0, GuestRead)

GuestPtr == [tex |-> 0, log |-> 9, dvi |-> 18, tty |-> 27, buf |-> 31]

\* the state of a new runner
WasmRunner_new ==
    [vfs |-> set_stdin(new(extracted_files), StdinPrompt), mem |-> GuestMem,
     has_run |-> FALSE]

\* what TeX makes of the source it has read: the text it writes to the terminal and
\* to the log, the bytes of the DVI file (none when there is no page), and whether it
\* ends in a trap
GuestLog(source) == <<40>> \o source
GuestDvi(source) == IF source = <<>> THEN <<>> ELSE <<247, 139>> \o source \o <<140>>
GuestTraps(source) == source # <<>> /\ source[1] = 92

\* printChar for each byte of a text
RECURSIVE GuestPrint(_, _, _, _)
GuestPrint(v, m, fd, text) ==
    IF text = <<>> THEN v
    ELSE GuestPrint(print_char(v, m, fd, text[1]).vfs, m, fd, After(text, 1))

\* the export main of tex.wasm as the imports see it: it opens input.tex and reads it,
\* opens the terminal and the log and prints to both, and, unless it traps or has no
\* page, opens input.dvi and puts the DVI bytes
main(v, m) ==
    Bind(reset(v, m, Len(NameInputTex), GuestPtr.tex), LAMBDA tex :
    Bind(get(tex.vfs, tex.mem, tex.val, GuestPtr.buf, GuestRead), LAMBDA src :
    Bind(rewrite(src.vfs, src.mem, Len(NameTTY), GuestPtr.tty), LAMBDA tty :
    Bind(rewrite(tty.vfs, tty.mem, Len(NameInputLog), GuestPtr.log), LAMBDA log :
    Bind(GuestPrint(log.vfs, log.mem, tty.val, GuestLog(src.out)), LAMBDA on_tty :
    Bind(GuestPrint(on_tty, log.mem, log.val, GuestLog(src.out)), LAMBDA printed :
        IF GuestTraps(src.out) THEN [vfs |-> printed, mem |-> log.mem, trap |-> TRUE]
        ELSE IF GuestDvi(src.out) = <<>>
          THEN [vfs |-> printed, mem |-> log.mem, trap |-> FALSE]
        ELSE Bind(rewrite(printed, log.mem, Len(NameInputDvi), GuestPtr.dvi), LAMBDA dvi :
             Bind(put(dvi.vfs, dvi.mem, dvi.val, GuestPtr.buf, Len(GuestDvi(src.out))),
                  LAMBDA written :
                 [vfs |-> written.vfs, mem |-> written.mem, trap |-> FALSE]))))))))

\* a runner: the file system and the memory of its store, and has_run
Runner(v, m, h) == [vfs |-> v, mem |-> m, has_run |-> h]

set_input(r, input) ==
    Runner(set_file_contents(r.vfs, Named(NameInputTex), input), r.mem, FALSE)

\* what run does after the call of main, or without it: invoked tells whether main
\* was called, g is what main left
Fetch(g, invoked, has_run_after) ==
    Bind(Runner(g.vfs, g.mem, has_run_after), LAMBDA after :
    Bind(get_file_contents(after.vfs, Named(NameInputDvi)), LAMBDA input_dvi :
        IF g.trap
          THEN [runner |-> after, result |-> Err("trap", <<>>), invoked |-> invoked,
                panic |-> FALSE]
        ELSE IF input_dvi = None
          THEN [runner |-> after,
                result |-> Err("Cannot find input.dvi. Maybe compilation failed?", <<>>),
                invoked |-> invoked, panic |-> FALSE]
        ELSE Bind(dvi2svg(input_dvi[1]), LAMBDA svg :
                [runner |-> after, result |-> svg.result, invoked |-> invoked,
                 panic |-> svg.panic])))

\* run going into main on every call
run_always(r) ==
    Bind(main(r.vfs, r.mem), LAMBDA g : Fetch(g, TRUE, TRUE))

\* run setting has_run only when main has returned without a trap
run_retry_after_trap(r) ==
    IF ~r.has_run
      THEN Bind(main(r.vfs, r.mem), LAMBDA g : Fetch(g, TRUE, ~g.trap))
      ELSE Fetch([vfs |-> r.vfs, mem |-> r.mem, trap |-> FALSE], FALSE, TRUE)

run(r) ==
    IF ~r.has_run
      THEN Bind(main(r.vfs, r.mem), LAMBDA g : Fetch(g, TRUE, TRUE))
      ELSE Fetch([vfs |-> r.vfs, mem |-> r.mem, trap |-> FALSE], FALSE, TRUE)

\* get_messages going by whether anything was printed
get_messages_by_output(r) ==
    IF r.vfs.stdout = <<>> THEN Err("TeX has not run yet.", <<>>) ELSE Ok(get_stdout(r.vfs))

get_messages(r) ==
    IF ~r.has_run THEN Err("TeX has not run yet.", <<>>) ELSE Ok(get_stdout(r.vfs))

get_log(r) ==
    IF ~r.has_run THEN Err("TeX has not run yet.", <<>>)
    ELSE LET input_log == get_file_contents(r.vfs, Named(NameInputLog))
         IN IF input_log = None
              THEN Err("Cannot find input.log. Maybe compilation failed?", <<>>)
              ELSE Ok(from_utf8_lossy(input_log[1]))

tex2svg(wasm_runner, input_str) == run(set_input(wasm_runner, as_bytes(input_str)))

\* printed is what the function prints after "input.log:" when the conversion fails
text2svg_simple(input) ==
    Bind(tex2svg(WasmRunner_new, input), LAMBDA svg_result :
        IF ~svg_result.result.ok
          THEN Bind(get_messages(svg_result.runner), LAMBDA log_result :
                 IF ~log_result.ok
                   THEN [result |-> log_result, printed |-> <<>>,
                         panic |-> svg_result.panic]
                   ELSE [result |-> Err("Failed to convert DVI to SVG.", <<>>),
                         printed |-> log_result.value[1], panic |-> svg_result.panic])
          ELSE [result |-> svg_result.result, printed |-> <<>>,
                panic |-> svg_result.panic])

\* render_tex of typst-tikz-lib: the error becomes its message, as format!("{}", error)
\* gives it
render_tex(in_str) ==
    Bind(text2svg_simple(from_utf8_lossy(in_str)), LAMBDA r :
        IF ~r.result.ok
          THEN [result |-> Err(r.result.msg, r.result.attached), printed |-> r.printed,
                panic |-> r.panic]
          ELSE r)

\* the runner held in the variables
SelfRunner == Runner(Self, mem, has_run)

InstallRunner(r) ==
    /\ Install(r.vfs)
    /\ mem' = r.mem
    /\ has_run' = r.has_run

\* the sources handed to set_input and to the entry points: nothing, a letter, two
\* letters, and a backslash, on which the guest of the model traps
TexInputs == {<<>>, <<65>>, <<65, 66>>, <<92>>}

RunnerRet(op, arg, val, out, panic) ==
    [NoRet EXCEPT !.op = op, !.arg = arg, !.val = val, !.out = out, !.panic = panic]

\* main_calls counts the calls of main since the runner was made or set_input was
\* called last
RunnerSetInput ==
    /\ Alive
    /\ Len(fd_to_file_pointer) <= MaxRunnerFds
    /\ \E input \in TexInputs : \E r \in {set_input(SelfRunner, input)} :
        /\ InstallRunner(r)
        /\ ret' = RunnerRet("set_input", input, 0, <<>>, FALSE)
    /\ main_calls' = 0
    /\ UNCHANGED machine

\* ret.val is the result and ret.flag tells whether main was called
RunnerRun ==
    /\ Alive
    /\ \E r \in {run(SelfRunner)} :
          /\ InstallRunner(r.runner)
          /\ main_calls' = IF r.invoked THEN main_calls + 1 ELSE main_calls
          /\ ret' = [RunnerRet("run", <<>>, r.result, <<>>, r.panic) EXCEPT !.flag = r.invoked]
    /\ UNCHANGED machine

RunnerGetMessages ==
    /\ Alive
    /\ ret' = RunnerRet("get_messages", <<>>, get_messages(SelfRunner), <<>>, FALSE)
    /\ UNCHANGED <<data, stdin, stdout, fd_to_file_pointer, mem, has_run, main_calls, machine>>

RunnerGetLog ==
    /\ Alive
    /\ ret' = RunnerRet("get_log", <<>>, get_log(SelfRunner), <<>>, FALSE)
    /\ UNCHANGED <<data, stdin, stdout, fd_to_file_pointer, mem, has_run, main_calls, machine>>

\* text2svg_simple makes a runner of its own; ret.out is what it printed as the log
CallText2SvgSimple ==
    /\ Alive
    /\ \E input \in TexInputs :
        \E r \in {text2svg_simple(input)} : ret' = RunnerRet("text2svg_simple", input, r.result, r.printed, r.panic)
    /\ UNCHANGED <<data, stdin, stdout, fd_to_file_pointer, mem, has_run, main_calls, machine>>

CallRenderTex ==
    /\ Alive
    /\ \E in_str \in TexInputs :
        \E r \in {render_tex(in_str)} : ret' = RunnerRet("render_tex", in_str, r.result, r.printed, r.panic)
    /\ UNCHANGED <<data, stdin, stdout, fd_to_file_pointer, mem, has_run, main_calls, machine>>

RunnerInit ==
    /\ data = WasmRunner_new.vfs.data
    /\ stdin = WasmRunner_new.vfs.stdin
    /\ stdout = WasmRunner_new.vfs.stdout
    /\ fd_to_file_pointer = WasmRunner_new.vfs.fd_to_file_pointer
    /\ mem = WasmRunner_new.mem
    /\ has_run = WasmRunner_new.has_run
    /\ main_calls = 0
    /\ machine = NoMachine
    /\ ret = NoRet

RunnerNext ==
    \/ RunnerSetInput
    \/ RunnerRun
    \/ RunnerGetMessages
    \/ RunnerGetLog
    \/ CallText2SvgSimple
    \/ CallRenderTex

RunnerSpec == RunnerInit /\ [][RunnerNext]_vars

----------------------------------------------------------------------------
(* clean_filename applied to file names.  mem holds the bytes of the name. *)

\* a letter, and the characters clean_filename looks for
NameChars == {97, SP, QUOTE, LBRACE, RBRACE}

\* { "a" }, ""a"", {"a"}, "{a}" and the pool file bare, padded, quoted and braced
WrappedNames ==
    {<<LBRACE, SP, QUOTE, 97, QUOTE, SP, RBRACE>>,
     <<QUOTE, QUOTE, 97, QUOTE, QUOTE>>,
     <<LBRACE, QUOTE, 97, QUOTE, RBRACE>>,
     <<QUOTE, LBRACE, 97, RBRACE, QUOTE>>,
     NameTTY,
     NameTexPoolLong,
     <<SP>> \o NameTexPoolLong \o <<SP>>,
     <<QUOTE>> \o NameTexPoolLong \o <<QUOTE>>,
     <<LBRACE>> \o NameTexPoolLong \o <<RBRACE>>}

NameInputs == SeqUpTo(NameChars, MaxNameLen) \cup WrappedNames

\* the name is cleaned, and the cleaned name is the one held from then on
CallCleanFilename ==
    /\ UNCHANGED runner_and_machine
    /\ ret' = [NoRet EXCEPT !.op = "clean_filename", !.arg = mem,
                            !.out = clean_filename(mem)]
    /\ mem' = clean_filename(mem)
    /\ UNCHANGED <<data, stdin, stdout, fd_to_file_pointer>>

CleanInit ==
    /\ data = new(<<>>).data
    /\ stdin = new(<<>>).stdin
    /\ stdout = new(<<>>).stdout
    /\ fd_to_file_pointer = new(<<>>).fd_to_file_pointer
    /\ mem \in NameInputs
    /\ ret = NoRet
    /\ has_run = FALSE
    /\ main_calls = 0
    /\ machine = NoMachine

CleanNext == CallCleanFilename

CleanSpec == CleanInit /\ [][CleanNext]_vars

----------------------------------------------------------------------------
(* Properties of the descriptor table and of reads and writes *)

\* the file system after the step
SelfNext == VFS(data', stdin', stdout', fd_to_file_pointer')

\* the bytes at indices [p, min(p + n, Len(buffer))) of buffer, empty when p is at or past the end
BytesFrom(buffer, p, n) ==
    IF p >= Len(buffer) THEN <<>> ELSE SubSeq(buffer, p + 1, Min(p + n, Len(buffer)))

\* C1: every get_file_descriptor call returns the number of descriptors created before
\* it and adds exactly one descriptor, on the stream asked for; no step removes a
\* descriptor or changes the stream of one, so no descriptor value is returned twice
\* and every descriptor keeps resolving to the stream it was opened on.
C1_FreshStableDescriptors ==
    [][/\ Len(fd_to_file_pointer') >= Len(fd_to_file_pointer)
       /\ \A i \in 1..Len(fd_to_file_pointer) :
            fd_to_file_pointer'[i].file = fd_to_file_pointer[i].file
       /\ ret'.op = "get_file_descriptor" =>
            /\ ret'.val = Len(fd_to_file_pointer)
            /\ Len(fd_to_file_pointer') = Len(fd_to_file_pointer) + 1
            /\ fd_to_file_pointer'[ret'.val + 1].file = ret'.file]_vars

\* A name that is already open has been opened again and got the next descriptor.
C1_Witness ==
    /\ ret.op = "get_file_descriptor"
    /\ ret.val = 1
    /\ Len(fd_to_file_pointer) = 2
    /\ fd_to_file_pointer[1].file = fd_to_file_pointer[2].file
    /\ ret.file.kind = "Named"

\* C2: the descriptor made by an open has erstat 1 exactly when it is on a name that
\* was absent just before the call and erstat_if_new was passed, and erstat 0 otherwise
\* (name present, flag false, Stdin, Stdout); its cursor is 0; an absent name is
\* created with empty content.
C2_ErstatOnOpen ==
    [][ret'.op = "get_file_descriptor" =>
        LET fp == fd_to_file_pointer'[Len(fd_to_file_pointer')]
            absent == ret'.file.kind = "Named" /\ ret'.file.name \notin DOMAIN data
        IN /\ fp.erstat = (IF absent /\ ret'.flag THEN 1 ELSE 0)
           /\ fp.position = 0
           /\ absent => /\ ret'.file.name \in DOMAIN data'
                        /\ data'[ret'.file.name] = <<>>]_vars

\* A missing name has been opened with erstat_if_new and its descriptor has erstat 1.
C2_Witness ==
    /\ ret.op = "get_file_descriptor"
    /\ ret.flag
    /\ ret.file = Named(NameT)
    /\ fd_to_file_pointer[ret.val + 1].erstat = 1
    /\ data[NameT] = <<>>

C4_ReadReturnsBytesAtCursor ==
    [][ret'.op = "read_from_file_by_index" /\ HasFd(Self, ret'.fd) =>
        LET fp == fd_to_file_pointer[ret'.fd + 1]
            buffer == Buffer(Self, fp.file)
        IN /\ ret'.out = BytesFrom(buffer, fp.position, ret'.n)
           /\ fd_to_file_pointer'[ret'.fd + 1].position = fp.position + Len(ret'.out)]_vars

\* C5: a get through a descriptor whose cursor is at or past the end of its stream
\* writes one zero byte at mem[ptr] and delivers no stream byte; a get that reads
\* bytes writes the bytes at the cursor to mem[ptr..].
C5_GetAtEndWritesZero ==
    [][ret'.op = "get" /\ ~ret'.panic /\ HasFd(Self, ret'.fd) =>
        LET fp == fd_to_file_pointer[ret'.fd + 1]
            buffer == Buffer(Self, fp.file)
        IN IF fp.position >= Len(buffer)
             THEN /\ mem' = MemWrite(mem, ret'.ptr, <<0>>).mem
                  /\ ret'.out = <<>>
             ELSE ret'.n >= 1 =>
                    mem' = MemWrite(mem, ret'.ptr, BytesFrom(buffer, fp.position, ret'.n)).mem]_vars

\* C6: in every reachable state every descriptor's cursor is at most the length of
\* its stream.
C6_CursorWithinStream ==
    \A i \in 1..Len(fd_to_file_pointer) :
        fd_to_file_pointer[i].position <= Len(Buffer(Self, fd_to_file_pointer[i].file))

\* the offset at which the next input_ln on fd starts to read its line
\* (current_file_position), and the offset at which the next get or write on fd operates
LineOffset(v, fd) == v.fd_to_file_pointer[fd + 1].position
ByteOffset(v, fd) == v.fd_to_file_pointer[fd + 1].position

\* C7: a get leaves the offset at which the next input_ln on the descriptor starts
\* unchanged, and an input_ln leaves the offset of the next get or write unchanged.
C7_ByteAndLineProgressIndependent ==
    [][/\ (ret'.op = "get" /\ ~ret'.panic /\ HasFd(Self, ret'.fd)) =>
            LineOffset(SelfNext, ret'.fd) = LineOffset(Self, ret'.fd)
       /\ (ret'.op = "input_ln" /\ ~ret'.panic /\ HasFd(Self, ret'.fd)) =>
            ByteOffset(SelfNext, ret'.fd) = ByteOffset(Self, ret'.fd)]_vars

\* C8: a write of b through a valid descriptor with cursor p on a stream of length L
\* puts b at [p, p + |b|), keeps every other byte that existed, makes the length
\* max(L, p + |b|) and the cursor p + |b|; reading |b| bytes from cursor p returns b.
C8_WriteThenReadBack ==
    [][ret'.op = "write_to_file_by_index" /\ HasFd(Self, ret'.fd) =>
        LET fp == fd_to_file_pointer[ret'.fd + 1]
            p == fp.position
            b == ret'.arg
            old == Buffer(Self, fp.file)
            now == Buffer(SelfNext, fp.file)
            rewound == [SelfNext EXCEPT !.fd_to_file_pointer[ret'.fd + 1].position = p]
        IN /\ Len(now) = Max(Len(old), p + Len(b))
           /\ \A i \in 1..Len(b) : now[p + i] = b[i]
           /\ \A i \in 1..Len(old) : (i <= p \/ i > p + Len(b)) => now[i] = old[i]
           /\ fd_to_file_pointer'[ret'.fd + 1].position = p + Len(b)
           /\ read_from_file_by_index(rewound, ret'.fd, Len(b)).out = b]_vars

HostFdOps ==
    {"eof", "eoln", "erstat", "get", "input_ln", "print_char", "print_string",
     "print_newline", "close"}

\* C9: a host import called with fd = -1 or with an fd that is not open returns
\* normally and changes no stream content.
C9_BadFdNeverTraps ==
    [][ret'.op \in HostFdOps /\ ~HasFd(Self, ret'.fd) =>
        /\ ~ret'.panic
        /\ UNCHANGED <<data, stdin, stdout>>]_vars

VfsFdOps ==
    {"write_to_file_by_index", "read_from_file_by_index", "get_length",
     "advance_file_pointer", "get_file_pointer_by_index"}

\* C10: write, read, get_length, advance_file_pointer and get_file_pointer_by_index
\* called with a negative or unopened fd change no stream, cursor or descriptor, and
\* return nothing, the empty sequence, 0, nothing and None.
C10_BadFdIsNoOp ==
    [][ret'.op \in VfsFdOps /\ ~HasFd(Self, ret'.fd) =>
        /\ UNCHANGED <<data, stdin, stdout, fd_to_file_pointer>>
        /\ ret'.op = "read_from_file_by_index" => ret'.out = <<>>
        /\ ret'.op = "get_length" => ret'.val = 0
        /\ ret'.op = "get_file_pointer_by_index" => ~ret'.some]_vars

\* A write of one byte has been asked for with fd = -1 while descriptor 0 is open.
C10_Witness ==
    /\ ret.op = "write_to_file_by_index"
    /\ ret.fd = 0 - 1
    /\ ret.arg # <<>>
    /\ Len(fd_to_file_pointer) >= 1

----------------------------------------------------------------------------
(* Properties of end of file, end of line, file names and the host imports *)

\* C11: at_eof_by_index on an open descriptor is true exactly when the descriptor is
\* on Stdin or on a named stream and its cursor is at or beyond the length of the
\* stream (so always on an empty Stdin), and false on Stdout; a read that brings the
\* cursor of a named stream to its length leaves the descriptor at end of file.
C11_AtEofIffCursorAtEnd ==
    [][/\ (ret'.op = "at_eof_by_index" /\ HasFd(Self, ret'.fd)) =>
            LET fp == fd_to_file_pointer[ret'.fd + 1]
            IN ret'.flag = (/\ fp.file.kind # "Stdout"
                            /\ fp.position >= Len(Buffer(Self, fp.file)))
       /\ (/\ ret'.op = "read_from_file_by_index"
           /\ HasFd(Self, ret'.fd)
           /\ fd_to_file_pointer[ret'.fd + 1].file.kind = "Named"
           /\ PositionOf(SelfNext, ret'.fd)
                 >= Len(Buffer(SelfNext, fd_to_file_pointer[ret'.fd + 1].file))) =>
            at_eof_by_index(SelfNext, ret'.fd)]_vars

\* at_eof_by_index has answered true for a descriptor on a named stream of one byte
\* whose cursor is exactly at the length of the stream.
C11_Witness ==
    /\ ret.op = "at_eof_by_index"
    /\ ret.flag
    /\ HasFd(Self, ret.fd)
    /\ fd_to_file_pointer[ret.fd + 1].file = Named(NameT)
    /\ Len(data[NameT]) = 1
    /\ fd_to_file_pointer[ret.fd + 1].position = 1

\* C12: file_pointer_at_eoln on the file pointer of a descriptor is true if and only
\* if the descriptor is at end of file or the byte of its stream at the cursor is LF,
\* whether the stream is Stdin, Stdout or a named one.
C12_AtEolnIffEofOrLF ==
    [][ret'.op = "file_pointer_at_eoln" =>
        LET fp == fd_to_file_pointer[ret'.fd + 1]
        IN ret'.flag = (\/ file_pointer_at_eof(Self, fp)
                        \/ ByteIsLF(Buffer(Self, fp.file), fp.position))]_vars

\* C13: cleaning a name that clean_filename has returned gives the same name again:
\* clean_filename(clean_filename(s)) = clean_filename(s) for every s.
C13_CleanFilenameIdempotent ==
    [][ret.op = "clean_filename" /\ ret'.op = "clean_filename" => ret'.out = ret.out]_vars

\* str without its first and last character when these are opener and closer
StripPair(str, opener, closer) ==
    IF Len(str) >= 2 /\ str[1] = opener /\ str[Len(str)] = closer
      THEN SubSeq(str, 2, Len(str) - 1)
      ELSE str

\* C14: clean_filename returns its input trimmed, then without an enclosing pair of
\* double quotes, then without an enclosing pair of curly braces, then trimmed again
\* (so a name without wrappers comes back unchanged), and tex.pool in place of a
\* result TeXformats:TEX.POOL.
C14_CleanFilenameStripsEnclosingPairs ==
    [][ret'.op = "clean_filename" =>
        LET unquoted == StripPair(Trim(ret'.arg), QUOTE, QUOTE)
            result == Trim(StripPair(unquoted, LBRACE, RBRACE))
        IN ret'.out = (IF result = NameTexPoolLong THEN NameTexPool ELSE result)]_vars

\* C15: reset and rewrite return a new descriptor.  When the name read from guest
\* memory cleans to TTY: the descriptor is on Stdin for reset and on Stdout for
\* rewrite, has erstat 0, and no entry is added to the named files.  For any other
\* name the descriptor is on Named(name); reset gives it erstat 1 exactly when the
\* name was absent (err_if_new = true) and rewrite always gives it erstat 0
\* (err_if_new = false); the name exists afterwards.
C15_ResetRewriteOpen ==
    [][ret'.op \in {"reset", "rewrite"} /\ ~ret'.panic =>
        LET name == clean_filename(read_memory(mem, ret'.ptr, ret'.n).bytes)
            fp == fd_to_file_pointer'[ret'.val + 1]
        IN /\ ret'.val = Len(fd_to_file_pointer)
           /\ Len(fd_to_file_pointer') = Len(fd_to_file_pointer) + 1
           /\ fp.position = 0
           /\ IF name = NameTTY
                THEN /\ fp.file = (IF ret'.op = "reset" THEN Stdin ELSE Stdout)
                     /\ fp.erstat = 0
                     /\ data' = data
                ELSE /\ fp.file = Named(name)
                     /\ fp.erstat = (IF ret'.op = "reset" /\ name \notin DOMAIN data
                                       THEN 1 ELSE 0)
                     /\ name \in DOMAIN data'
           /\ ret'.op = "rewrite" => fp.erstat = 0]_vars

\* rewrite has been called with the name TTY: and returned a descriptor on Stdout,
\* and the named files have no entry TTY:.
C15_Witness ==
    /\ ret.op = "rewrite"
    /\ ret.arg = NameTTY
    /\ fd_to_file_pointer[ret.val + 1].file = Stdout
    /\ fd_to_file_pointer[ret.val + 1].erstat = 0
    /\ NameTTY \notin DOMAIN data

\* C16: close changes nothing: the named files, stdin, stdout, the descriptor table
\* with every cursor, and the guest memory are the same after the call as before, so
\* every later read or write through the descriptor behaves as without the call.
C16_CloseChangesNothing ==
    [][ret'.op = "close" =>
        UNCHANGED <<data, stdin, stdout, fd_to_file_pointer, mem>>]_vars

\* close has been called on an open descriptor whose cursor is not at the start.
C16_Witness ==
    /\ ret.op = "close"
    /\ HasFd(Self, ret.fd)
    /\ fd_to_file_pointer[ret.fd + 1].position > 0

\* C17: put(fd, ptr, len) through an open descriptor writes the bytes
\* mem[ptr..ptr+len] into the stream at the cursor and advances the cursor by len.
C17_PutWritesBytes ==
    [][ret'.op = "put" /\ HasFd(Self, ret'.fd) =>
        LET fp == fd_to_file_pointer[ret'.fd + 1]
            bytes == read_memory(mem, ret'.ptr, ret'.n).bytes
        IN /\ Buffer(SelfNext, fp.file) = WriteAt(Buffer(Self, fp.file), fp.position, bytes)
           /\ PositionOf(SelfNext, ret'.fd) = fp.position + ret'.n]_vars

\* C18: printInteger(fd, n) through an open descriptor writes the decimal ASCII
\* representation of n (with a leading minus sign when n is negative) into the
\* stream at the cursor and advances the cursor by the number of characters.
C18_PrintIntegerWritesDecimal ==
    [][ret'.op = "print_integer" /\ HasFd(Self, ret'.fd) =>
        LET fp == fd_to_file_pointer[ret'.fd + 1]
            digits == Decimal(ret'.val)
        IN /\ Buffer(SelfNext, fp.file) = WriteAt(Buffer(Self, fp.file), fp.position, digits)
           /\ PositionOf(SelfNext, ret'.fd) = fp.position + Len(digits)]_vars

\* the guest words first and last
FirstWord(m) == u8_to_u32(read_memory(m, Guest.first_pointer, 4).bytes)
LastWord(m) == u8_to_u32(read_memory(m, Guest.last_pointer, 4).bytes)

\* C19: input_ln through an open descriptor that is at end of file returns 0, leaves
\* the guest word last equal to the guest word first, and writes nothing into the
\* line buffer (no byte of guest memory outside the word last changes).
C19_InputLnAtEof ==
    [][(/\ ret'.op = "input_ln"
        /\ HasFd(Self, ret'.fd)
        /\ file_pointer_at_eof(Self, fd_to_file_pointer[ret'.fd + 1])) =>
        /\ ~ret'.panic
        /\ ret'.val = 0
        /\ LastWord(mem') = FirstWord(mem')
        /\ FirstWord(mem') = FirstWord(mem)
        /\ \A i \in 1..Len(mem) :
              (i <= Guest.last_pointer \/ i > Guest.last_pointer + 4) => mem'[i] = mem[i]]_vars

\* input_ln has been called on an open descriptor at end of file and returned 0,
\* and the word last, which differed from first when the guest started, equals it.
C19_Witness ==
    /\ ret.op = "input_ln"
    /\ ret.val = 0
    /\ ~ret.panic
    /\ HasFd(Self, ret.fd)
    /\ file_pointer_at_eof(Self, fd_to_file_pointer[ret.fd + 1])
    /\ LastWord(mem) = FirstWord(mem)
    /\ FirstWord(mem) # 0

\* C20: when input_ln returns 1, the guest word last is first + k, where k is the
\* length of the line read without its trailing spaces, and the k bytes of guest
\* memory from buf_ptr + first are those of the line; a line of spaces only gives
\* last = first.
C20_InputLnSetsLast ==
    [][ret'.op = "input_ln" /\ ~ret'.panic /\ ret'.val = 1 =>
        LET first == FirstWord(mem)
            k == Len(ret'.out)
        IN /\ ret'.out = StripTrailingSpaces(ret'.out)
           /\ LastWord(mem') = first + k
           /\ read_memory(mem', Guest.buf_pointer + first, k).bytes = ret'.out]_vars

----------------------------------------------------------------------------
(* Properties of the runner and of the entry points *)

\* C21: between two calls of set_input, or between the making of the runner and the
\* first set_input, main is called at most once however often run is called, also
\* when that call of main failed; only set_input makes another call of main possible.
C21_MainAtMostOncePerInput ==
    [][/\ main_calls' <= 1
       /\ (ret'.op = "run" /\ ret'.flag) => (~has_run /\ has_run')
       /\ (ret'.op = "run" /\ has_run) => ~ret'.flag
       /\ (has_run /\ ~has_run') => ret'.op = "set_input"]_vars

\* run was called again after a call in which main trapped, and main was not called
C21_Witness ==
    /\ ret.op = "run" /\ ~ret.flag
    /\ main_calls = 1
    /\ GuestTraps(Buffer(Self, Named(NameInputTex)))

C23_RunAsOnNewRunner ==
    [][(ret'.op = "run" /\ ret'.flag /\ ~ret'.panic) =>
        ret'.val = run(set_input(WasmRunner_new, Buffer(Self, Named(NameInputTex)))).result]_vars

\* C24: when text2svg_simple or render_tex fails, the error it returns holds the text
\* TeX wrote (the log, which is also what it printed to the terminal), not only a
\* fixed message.
C24_ErrorHoldsLog ==
    (ret.op \in {"text2svg_simple", "render_tex"} /\ ~ret.val.ok /\ ret.out # <<>>) =>
        ret.val.attached = ret.out

----------------------------------------------------------------------------
(* Properties of the SVG machine *)

\* C28: handle_special calls the handlers in the order they were registered (raw SVG,
\* colour, paper size) and stops at the first that returns true: the handlers called
\* are the first ones of the list, each once, every one but the last returned false,
\* and when fewer than all were called the last one returned true.
C28_HandlersInOrderUntilTrue ==
    [][ret'.op = "handle_special" /\ ~ret'.panic =>
        LET called == ret'.val
        IN /\ Len(called) \in 1..Len(special_handlers)
           /\ \A i \in 1..Len(called) : called[i].handler = special_handlers[i]
           /\ \A i \in 1..(Len(called) - 1) : ~called[i].returned
           /\ Len(called) < Len(special_handlers) => called[Len(called)].returned
           /\ (Len(called) = 1 /\ called[1].returned) =>
                /\ machine'.color = machine.color
                /\ machine'.color_stack = machine.color_stack
                /\ machine'.paperwidth = machine.paperwidth]_vars

\* a colour special was taken by the second handler and the third was not called
C28_Witness ==
    /\ ret.op = "handle_special" /\ ~ret.panic
    /\ Len(ret.val) = 2
    /\ ret.val[2].handler = "special_html_color" /\ ret.val[2].returned

\* the sizes, in points, a well-formed papersize special of the model names
PaperOf(command) == IF command = CmdPaperA THEN <<10, 20>> ELSE <<30, 40>>

\* C27: the document has width and height 100 until a papersize special is handled;
\* after papersize=<w>pt,<h>pt its width, its height and the extent of its viewBox are
\* the w and h of the most recent such special; no other call changes them.
C27_PapersizeSetsExtent ==
    /\ get_content(machine).width = Decimal(100)
    /\ get_content(machine).height = Decimal(100)
    /\ get_content(machine).viewBox =
         <<Decimal(0 - 72), Decimal(0 - 72), Decimal(100), Decimal(100)>>
    /\ [][IF ret'.op = "handle_special" /\ ~ret'.panic /\ ret'.arg \in {CmdPaperA, CmdPaperB}
            THEN LET w == Decimal(PaperOf(ret'.arg)[1])
                     h == Decimal(PaperOf(ret'.arg)[2])
                 IN /\ get_content(machine').width = w
                    /\ get_content(machine').height = h
                    /\ get_content(machine').viewBox =
                         <<Decimal(0 - 72), Decimal(0 - 72), w, h>>
            ELSE /\ get_content(machine').width = get_content(machine).width
                 /\ get_content(machine').height = get_content(machine).height
                 /\ get_content(machine').viewBox = get_content(machine).viewBox]_vars

\* the document is asked for after two papersize specials and has the size of the later
C27_Witness ==
    /\ ret.op = "get_content"
    /\ ret.out[1].width = Decimal(30) /\ ret.out[1].height = Decimal(40)
    /\ ret.out[1].viewBox[3] = Decimal(30)

\* the fragment a buffered payload becomes at position (h, v)
Flushed(buffer, h, v) ==
    Replace(Replace(Replace(Replace(Replace(buffer, TokX, Decimal(h)), TokY, Decimal(v)),
                            TokNl, <<LF>>), TokBeginPicture, <<>>), TokEndPicture, <<>>)

\* C26: a dvisvgm:raw special only appends its payload to svg_buffer and leaves the
\* content alone; the first special after it that is not raw first appends the whole
\* buffered payload, with {?x}, {?y}, {?nl} substituted and the picture tokens
\* deleted, to the content and empties svg_buffer, and then its own handler is applied.
C26_RawIsBufferedThenFlushed ==
    [][ret'.op = "handle_special" /\ ~ret'.panic =>
        IF StartsWith(ret'.arg, PatRaw)
          THEN /\ machine'.svg_buffer = machine.svg_buffer \o After(ret'.arg, Len(PatRaw))
               /\ machine'.content = machine.content
               /\ machine'.color = machine.color
               /\ machine'.paperwidth = machine.paperwidth
          ELSE IF machine.svg_buffer # <<>>
            THEN LET p == machine.position
                     ppu == machine.points_per_dvi_unit[1]
                     flushed ==
                         [machine EXCEPT
                            !.content = Append(@, [tag |-> "raw",
                                svg |-> Flushed(machine.svg_buffer, p.h * ppu, p.v * ppu)]),
                            !.svg_buffer = <<>>]
                     own == IF StartsWith(ret'.arg, PatPapersize)
                              THEN special_papersize(flushed, ret'.arg).machine
                              ELSE special_color(flushed, ret'.arg).machine
                 IN /\ machine'.svg_buffer = <<>>
                    /\ machine'.content = flushed.content
                    /\ machine'.color = own.color
                    /\ machine'.color_stack = own.color_stack
                    /\ machine'.paperwidth = own.paperwidth
                    /\ machine'.paperheight = own.paperheight
            ELSE /\ machine'.svg_buffer = <<>>
                 /\ machine'.content = machine.content]_vars

\* a colour push came after a raw special: the payload is in the content, with the
\* position in place of {?x}, the buffer is empty and the colour is the pushed one
C26_Witness ==
    /\ ret.op = "handle_special" /\ ~ret.panic /\ ret.arg = CmdPushRed
    /\ machine.svg_buffer = <<>>
    /\ machine.content # <<>>
    /\ machine.content[1].tag = "raw"
    /\ machine.content[1].svg = <<60, 103, 62>> \o Decimal(1)
    /\ machine.color = "#ff0000"

\* C25: color push X followed by its matching color pop leaves the colour that was
\* current before the push; text and rules in between are filled with X; once every
\* push has been popped the colour is black again.
C25_ColorPushPopRestores ==
    [][/\ (ret'.op = "handle_special" /\ ~ret'.panic /\ StartsWith(ret'.arg, PatColorPush)) =>
            machine'.color = tex_color_to_hex(After(ret'.arg, Len(PatColorPush)))
       /\ (ret'.op \in {"put_text", "put_rule"} /\ ~ret'.panic) =>
            machine'.content[Len(machine'.content)].fill = machine.color
       /\ (ret'.op = "handle_special" /\ ~ret'.panic /\ ret'.arg = CmdPop) =>
            /\ (ret.op = "handle_special" /\ StartsWith(ret.arg, PatColorPush)) =>
                 machine'.color = ret.out[1]
            /\ machine'.color_stack = <<>> => machine'.color = "black"]_vars

\* the position from which input_ln reads its line: the cursor, moved past one LF
\* when bypass_eoln asks for it and the byte at the cursor is LF
LineStart(buffer, position, bypass_eoln) ==
    IF bypass_eoln # 0 /\ ByteIsLF(buffer, position) THEN position + 1 ELSE position

\* C29: input_ln through an open descriptor returns 0 only if the read position,
\* after the skip of one LF that bypass_eoln asks for, is at or past the end of the
\* stream; when the byte at that position exists and is not LF, the call returns 1
\* and the line it puts at buf_ptr + first starts with that byte.
C29_InputLnZeroOnlyAtEnd ==
    [][ret'.op = "input_ln" /\ ~ret'.panic /\ HasFd(Self, ret'.fd) =>
        LET fp == fd_to_file_pointer[ret'.fd + 1]
            buffer == Buffer(Self, fp.file)
            start == LineStart(buffer, fp.position, ret'.n)
        IN /\ ret'.val = 0 => start >= Len(buffer)
           /\ (start < Len(buffer) /\ buffer[start + 1] # LF) =>
                /\ ret'.val = 1
                /\ mem'[Guest.buf_pointer + FirstWord(mem) + 1] = buffer[start + 1]]_vars

\* C30: every input_ln call that returns 1 moves the read position forward, to just
\* past the LF that ended the line or to the end of the stream, so that repeated
\* calls on a finite stream reach the end and return 0.
C30_InputLnAdvances ==
    [][ret'.op = "input_ln" /\ ~ret'.panic /\ HasFd(Self, ret'.fd) /\ ret'.val = 1 =>
        LET fp == fd_to_file_pointer[ret'.fd + 1]
            buffer == Buffer(Self, fp.file)
            after == PositionOf(SelfNext, ret'.fd)
        IN /\ after > fp.position
           /\ \/ after = Len(buffer)
              \/ (after <= Len(buffer) /\ buffer[after] = LF)]_vars

----------------------------------------------------------------------------
(* What opening, reading and writing leave alone *)

\* every stream of the file system before the step has the same content after it,
\* except the streams in but
SameStreams(but) ==
    /\ Stdin \in but \/ stdin' = stdin
    /\ Stdout \in but \/ stdout' = stdout
    /\ \A n \in DOMAIN data :
        Named(n) \in but \/ (n \in DOMAIN data' /\ data'[n] = data[n])

\* every descriptor of the table before the step is the same after it, except the
\* one at index but
SamePointers(but) ==
    /\ Len(fd_to_file_pointer') >= Len(fd_to_file_pointer)
    /\ \A i \in 1..Len(fd_to_file_pointer) :
        i = but \/ fd_to_file_pointer'[i] = fd_to_file_pointer[i]

\* C37: opening a descriptor, with either flag, on a name that exists or not, leaves
\* the content and the length of every stream and the cursor of every descriptor
\* made before as they were; opening for writing does not truncate the file.
C37_OpenAltersNothing ==
    [][ret'.op = "get_file_descriptor" => SameStreams({}) /\ SamePointers(0)]_vars

\* a file with content was opened for writing while an earlier descriptor had its
\* cursor inside it
C37_Witness ==
    /\ ret.op = "get_file_descriptor" /\ ~ret.flag /\ ret.file = Named(NameT)
    /\ data[NameT] # <<>>
    /\ Len(fd_to_file_pointer) = 2
    /\ fd_to_file_pointer[1].file = Named(NameT)
    /\ fd_to_file_pointer[1].position > 0

\* C38: descriptors on one name share one content and have cursors of their own:
\* bytes written through one are in the content at the offsets written and a read
\* through another, at offsets inside the content, returns the content there; a read
\* or a write through one descriptor leaves the cursors of the others alone, and a
\* write leaves every other stream alone.
C38_SharedContentOwnCursors ==
    [][/\ (ret'.op = "write_to_file_by_index" /\ HasFd(Self, ret'.fd)) =>
            LET fp == fd_to_file_pointer[ret'.fd + 1]
            IN /\ SamePointers(ret'.fd + 1)
               /\ SameStreams({fp.file})
               /\ SubSeq(Buffer(SelfNext, fp.file), fp.position + 1,
                         fp.position + Len(ret'.arg)) = ret'.arg
       /\ (ret'.op = "read_from_file_by_index" /\ HasFd(Self, ret'.fd)) =>
            LET fp == fd_to_file_pointer[ret'.fd + 1]
                buffer == Buffer(Self, fp.file)
            IN /\ SamePointers(ret'.fd + 1)
               /\ SameStreams({})
               /\ fp.position < Len(buffer) =>
                    ret'.out = SubSeq(buffer, fp.position + 1,
                                      Min(fp.position + ret'.n, Len(buffer)))]_vars

\* the second descriptor of a file read, at offset 0, the byte that was written
\* through the first, whose cursor is elsewhere
C38_Witness ==
    /\ ret.op = "read_from_file_by_index" /\ ret.fd = 1 /\ ret.out = <<LF>>
    /\ Len(fd_to_file_pointer) = 2
    /\ fd_to_file_pointer[1].file = Named(NameT)
    /\ fd_to_file_pointer[2].file = Named(NameT)
    /\ fd_to_file_pointer[2].position = 1
    /\ fd_to_file_pointer[1].position = 2

\* C39: of the descriptors made on one name at most one has erstat = 1: the first
\* reset of a missing name makes the empty entry, so a later reset of the name gives
\* erstat = 0 although the file is still empty.
C39_OneErstatPerName ==
    \A i, j \in 1..Len(fd_to_file_pointer) :
        (i # j /\ fd_to_file_pointer[i].file = fd_to_file_pointer[j].file) =>
            ~(fd_to_file_pointer[i].erstat = 1 /\ fd_to_file_pointer[j].erstat = 1)

\* a name was opened twice with erstat_if_new while its file stayed empty: the first
\* descriptor has erstat 1 and the second erstat 0
C39_Witness ==
    /\ ret.op = "get_file_descriptor" /\ ret.flag /\ ret.file = Named(NameT)
    /\ Len(fd_to_file_pointer) = 2
    /\ fd_to_file_pointer[1].file = Named(NameT) /\ fd_to_file_pointer[1].erstat = 1
    /\ fd_to_file_pointer[2].file = Named(NameT) /\ fd_to_file_pointer[2].erstat = 0
    /\ data[NameT] = <<>>

----------------------------------------------------------------------------
(* Messages and log of the runner *)

\* C40: get_messages and get_log return the error that TeX has not run while run has
\* not been called since the runner was made or since the last set_input, whatever an
\* earlier run printed and logged; once run has been called they do not return that
\* error, also when main failed in that run.
C40_MessagesOnlyAfterRun ==
    ret.op \in {"get_messages", "get_log"} =>
        /\ main_calls = 0 => (~ret.val.ok /\ ret.val.msg = "TeX has not run yet.")
        /\ main_calls > 0 => ret.val.msg # "TeX has not run yet."

\* get_messages was called after a run and a set_input: what the run printed is
\* there, and the call returned the error
C40_Witness ==
    /\ ret.op = "get_messages" /\ ~ret.val.ok
    /\ stdout # <<>>
    /\ NameInputLog \in DOMAIN data

----------------------------------------------------------------------------
(* Position stack and pages of the SVG machine *)

----------------------------------------------------------------------------
(* dvi2svg on whole files *)

Instructions == parse_dvi(ret.arg)

Returned == ret.op = "dvi2svg_return"

\* the instruction that the step just taken executed
Executed(op) == ret'.op = "execute" /\ Instructions[ret'.n].op = op

ExecutedSpecial(commands) ==
    /\ Executed("xxx")
    /\ \E pattern \in commands : StartsWith(Instructions[ret'.n].c, pattern)

\* C31: the fragments of content are in the order in which the instructions that made
\* them were executed: when a file in which a dvisvgm:raw special comes before a
\* set_char or put_rule has been transcoded, a raw fragment comes before a text or
\* rect element in the content of the document returned.
C31_FragmentsInExecutionOrder ==
    Returned =>
        LET content == ret.out[1].value[1].content
        IN \A i, j \in 1..Len(Instructions) :
            (/\ i < j
             /\ Instructions[i].op = "xxx" /\ StartsWith(Instructions[i].c, PatRaw)
             /\ Instructions[j].op \in {"set_char", "put_rule"}) =>
                \E a, b \in 1..Len(content) :
                    /\ a < b
                    /\ content[a].tag = "raw"
                    /\ content[b].tag \in {"text", "rect"}

\* C33: a pop on an empty stack does not end the process: execute returns from a DVI pop
\* executed with position_stack empty and from a color pop special executed with
\* color_stack empty, and it returns an Err, so that dvi2svg can return the error to
\* its caller.
C33_PopOnEmptyIsReturnedAsError ==
    [][(\/ Executed("pop") /\ machine.position_stack = <<>>
        \/ ExecutedSpecial({PatColorPop}) /\ machine.color_stack = <<>>) =>
            (~ret'.panic /\ ret'.val = FALSE)]_vars

\* C34: end_page checks the balance: a file in which eop is executed while
\* position_stack is not empty is not transcoded to an Ok, the instruction returns an
\* Err.
C34_EndPageChecksBalance ==
    [][(Executed("eop") /\ machine.position_stack # <<>>) =>
            (~ret'.panic /\ ret'.val = FALSE)]_vars

\* the papersize specials of the model that are malformed: no comma, components of one
\* character, no pt suffix, not a number
MalformedPapersizes == {CmdPaperShort, CmdPaperTiny, CmdPaperNoPt, CmdPaperNaN}

\* C35: a malformed papersize special is a no-op: executing it does not panic, leaves
\* paperwidth and paperheight as they were, and the loop goes on.
C35_MalformedPapersizeIsNoOp ==
    [][ExecutedSpecial(MalformedPapersizes) =>
            /\ ~ret'.panic
            /\ machine'.paperwidth = machine.paperwidth
            /\ machine'.paperheight = machine.paperheight]_vars

\* C36: end_page flushes the pending raw buffer: after eop svg_buffer is empty, and a
\* payload that was pending has become the last fragment of content.
C36_EndPageFlushes ==
    [][Executed("eop") =>
            /\ machine'.svg_buffer = <<>>
            /\ machine.svg_buffer # <<>> =>
                  /\ Len(machine'.content) = Len(machine.content) + 1
                  /\ machine'.content[Len(machine'.content)].tag = "raw"]_vars

====
